---- MODULE Spec2Model ----
(***************************************************************************)
(* Byte-level model of the segmented append-only key-value store          *)
(* (src/src/store/engine.rs, segment.rs, compaction.rs, index.rs).        *)
(*                                                                         *)
(* Files are sequences of bytes (0..255).  A String is modelled by its    *)
(* UTF-8 byte sequence, a Vec<u8> by a byte sequence.  Record encoding,   *)
(* positional decoding, the CRC32 checksum and the offset arithmetic of   *)
(* the index rebuild are computed on the bytes, as the code computes      *)
(* them.                                                                   *)
(***************************************************************************)
EXTENDS Integers, Sequences, FiniteSets, TLC

(***************************************************************************)
(* Bounds of the model.                                                    *)
(***************************************************************************)
\* number of records (Put or Tombstone, whole or torn) a behaviour appends
MaxWrites == 3
\* number of compact() calls (completed, failed or killed) in a behaviour
MaxCompacts == 1
\* number of times the store is opened again (after a drop or a kill)
MaxOpens == 1

\* Keys are non-empty ASCII strings: "a" and "b".
Keys == {<<97>>, <<98>>}
\* Values: the empty value and "x".
Vals == {<< >>, <<120>>}
\* Appends of the Segment-level specification.
MaxAppends == 3
\* Keys given to Segment::append as bytes: "a", and the single byte 0xFF,
\* which is not UTF-8.
SegKeys == {<<97>>, <<255>>}
\* The chunks a garbage segment file of SpecRebuild is made of, at most.
MaxChunks == 3
\* Where a killed write is cut: before its first byte (the rotation done),
\* inside key_len, inside value_len, one byte short of the header, after the
\* header (inside the key) and after the key (inside the value).
TornCuts == {0, 4, 12, 19, 20, 21}

\* The bytes a corrupted payload byte may turn into.
CorruptBytes == {97, 98, 120}

(***************************************************************************)
(* segment.rs:10  SEGMENT_SIZE_LIMIT.  The code's 1024 * 1024 is scaled    *)
(* down to the sizes of the model's records: a Put of "x" (22 bytes) fills *)
(* a segment by itself, a Put of the empty value or a Tombstone (21 bytes) *)
(* does not, and any two records do.                                       *)
(***************************************************************************)
SEGMENT_SIZE_LIMIT == 22

\* Size of the record header written by append: key_len(8) value_len(8) checksum(4).
HEADER_LEN == 20

(***************************************************************************)
(* Integers on bytes.                                                      *)
(***************************************************************************)
\* n.to_le_bytes() for an n below 2^31, w bytes wide (w = 8 for u64).
ToLeBytes(n, w) ==
    [i \in 1..w |->
        CASE i = 1 -> n % 256
          [] i = 2 -> (n \div 256) % 256
          [] i = 3 -> (n \div 65536) % 256
          [] i = 4 -> n \div 16777216
          [] OTHER -> 0]

\* u64::MAX.to_le_bytes(): the Tombstone marker in the value_len field.
U64_MAX_BYTES == [i \in 1..8 |-> 255]

\* u64::from_le_bytes(bs).  TLC's integers stop at 2^31 - 1, so a value
\* of 2^31 or more is reported as big: it exceeds every length in the model.
FromLeBytes(bs) ==
    IF bs[4] >= 128 \/ \E i \in 5..8 : bs[i] # 0
    THEN [big |-> TRUE, n |-> 0]
    ELSE [big |-> FALSE,
          n |-> bs[1] + 256 * bs[2] + 65536 * bs[3] + 16777216 * bs[4]]

(***************************************************************************)
(* crc32fast: CRC-32/IEEE (reflected polynomial 0xEDB88320, initial value  *)
(* and final xor 0xFFFFFFFF), computed a byte at a time from the table of  *)
(* the 256 eight-step remainders.  A 32-bit word is kept as its four       *)
(* little-endian bytes.  The two tables are evaluated once (@@ makes TLC   *)
(* store them as explicit functions).                                      *)
(***************************************************************************)
CrcPolyBits == {5, 8, 9, 15, 19, 20, 21, 23, 24, 26, 27, 29, 30, 31}

\* One step on a 32-bit vector indexed 0 (lsb) .. 31: shift right, and xor
\* the polynomial in when the bit shifted out was 1.
CrcShift(c) ==
    LET s == [i \in 0..31 |-> IF i = 31 THEN 0 ELSE c[i + 1]]
    IN  IF c[0] = 1
        THEN [i \in 0..31 |-> IF i \in CrcPolyBits THEN 1 - s[i] ELSE s[i]]
        ELSE s

RECURSIVE CrcShiftN(_, _)
CrcShiftN(c, n) == IF n = 0 THEN c ELSE CrcShiftN(CrcShift(c), n - 1)

BitsToBytes(f) ==
    [j \in 1..4 |->
        f[8 * (j - 1)] + 2 * f[8 * (j - 1) + 1] + 4 * f[8 * (j - 1) + 2]
        + 8 * f[8 * (j - 1) + 3] + 16 * f[8 * (j - 1) + 4]
        + 32 * f[8 * (j - 1) + 5] + 64 * f[8 * (j - 1) + 6]
        + 128 * f[8 * (j - 1) + 7]]

CrcTable ==
    [b \in 0..255 |->
        BitsToBytes(CrcShiftN(
            [i \in 0..31 |-> IF i < 8 THEN (b \div (2 ^ i)) % 2 ELSE 0], 8))]
    @@ << >>

RECURSIVE XorBits(_, _, _)
XorBits(a, b, n) ==
    IF n = 0 THEN 0
    ELSE ((a + b) % 2) + 2 * XorBits(a \div 2, b \div 2, n - 1)

Xor8 == [a \in 0..255 |-> [b \in 0..255 |-> XorBits(a, b, 8)] @@ << >>] @@ << >>

\* One byte of Hasher::update: crc = table[(crc ^ b) & 0xFF] ^ (crc >> 8),
\* t being the table entry.
CrcMix(t, c) == <<Xor8[t[1]][c[2]], Xor8[t[2]][c[3]], Xor8[t[3]][c[4]], t[4]>>

CrcByte(c, b) == CrcMix(CrcTable[Xor8[c[1]][b]], c)

RECURSIVE CrcUpdate(_, _)
CrcUpdate(c, bytes) ==
    IF bytes = << >> THEN c ELSE CrcUpdate(CrcByte(c, Head(bytes)), Tail(bytes))

\* Hasher::finalize and to_le_bytes: the complement, as four bytes.
CrcFinalize(c) == [j \in 1..4 |-> 255 - c[j]]

\* Hasher::new, update(bytes), finalize.
Crc32(bytes) == CrcFinalize(CrcUpdate(<<255, 255, 255, 255>>, bytes))

(***************************************************************************)
(* Record bytes, as Segment::append and Segment::append_tombstone write    *)
(* them.                                                                   *)
(***************************************************************************)
PutBytes(key, value) ==
    ToLeBytes(Len(key), 8) \o ToLeBytes(Len(value), 8) \o Crc32(key \o value)
    \o key \o value

TombstoneBytes(key) ==
    ToLeBytes(Len(key), 8) \o U64_MAX_BYTES \o Crc32(key) \o key

\* String::from_utf8_lossy(..).to_string(), by its UTF-8 bytes.  ASCII bytes
\* are kept; a byte of 0x80 or more that is not part of a well-formed sequence
\* (the model's keys are ASCII, so every such byte) becomes U+FFFD (EF BF BD).
RECURSIVE FromUtf8Lossy(_)
FromUtf8Lossy(bytes) ==
    IF bytes = << >> THEN << >>
    ELSE (IF Head(bytes) < 128 THEN <<Head(bytes)>> ELSE <<239, 191, 189>>)
         \o FromUtf8Lossy(Tail(bytes))

(***************************************************************************)
(* Segment::read_record_at on the bytes `data` of the segment's file.      *)
(*   [tag |-> "some", key, tomb, value]   Ok(Some((key, value_opt)))       *)
(*   [tag |-> "none"]                     Ok(None): fewer than 20 bytes    *)
(*   [tag |-> "err", kind, alloc]         Err: "io" (read_exact of the key *)
(*        or the value hit the end of file) or "checksum"; alloc says that *)
(*        the buffer asked for was 2^31 bytes or more, where the           *)
(*        allocation itself may abort the process instead.                 *)
(***************************************************************************)
\* segment.rs:120-148: the checksum of key_buf and val_buf (no val_buf for a
\* Tombstone) against the stored one.
ReadVerify(key_buf, tomb, val_buf, stored_checksum) ==
    IF Crc32(key_buf \o val_buf) # stored_checksum
    THEN [tag |-> "err", kind |-> "checksum", alloc |-> FALSE]
    ELSE [tag |-> "some", key |-> FromUtf8Lossy(key_buf), tomb |-> tomb,
          value |-> val_buf]

\* segment.rs:118-131: the value, read at `at` (the end of the key).
ReadValue(data, at, key_buf, vl_bytes, value_len, stored_checksum) ==
    IF vl_bytes = U64_MAX_BYTES
    THEN ReadVerify(key_buf, TRUE, << >>, stored_checksum)
    ELSE IF value_len.big \/ at + value_len.n > Len(data)
         THEN [tag |-> "err", kind |-> "io", alloc |-> value_len.big]
         ELSE ReadVerify(key_buf, FALSE,
                         SubSeq(data, at + 1, at + value_len.n),
                         stored_checksum)

\* segment.rs:109-116: the header fields, and the key read after the header.
ReadKey(data, offset, key_len, vl_bytes, stored_checksum) ==
    IF key_len.big \/ offset + HEADER_LEN + key_len.n > Len(data)
    THEN [tag |-> "err", kind |-> "io", alloc |-> key_len.big]
    ELSE ReadValue(data, offset + HEADER_LEN + key_len.n,
                   SubSeq(data, offset + HEADER_LEN + 1,
                          offset + HEADER_LEN + key_len.n),
                   vl_bytes, FromLeBytes(vl_bytes), stored_checksum)

ReadRecordAt(data, offset) ==
    IF offset + HEADER_LEN > Len(data) THEN [tag |-> "none"]
    ELSE ReadKey(data, offset,
                 FromLeBytes(SubSeq(data, offset + 1, offset + 8)),
                 SubSeq(data, offset + 9, offset + 16),
                 SubSeq(data, offset + 17, offset + 20))

\* Segment::read_value_at: Ok(Some(value)), Ok(None) or the error, from what
\* read_record_at returned.
ReadValueOf(r) ==
    CASE r.tag = "some" /\ ~r.tomb -> [tag |-> "value", value |-> r.value]
      [] r.tag = "some" /\ r.tomb  -> [tag |-> "none"]
      [] r.tag = "none"            -> [tag |-> "none"]
      [] OTHER                     -> [tag |-> "err", kind |-> r.kind]

ReadValueAt(data, offset) == ReadValueOf(ReadRecordAt(data, offset))

\* Segment::record_size (documented as the size used for offsets during
\* index rebuild; rebuild_index does not call it).
RecordSize(key_len, value_is_max, value_len) ==
    20 + key_len + (IF value_is_max THEN 0 ELSE value_len)

\* Segment::is_full on the cached length.
\* A faulty is_full that is true only above the limit.
IsFullAbove(len) == len > SEGMENT_SIZE_LIMIT

\* A faulty is_full that is true as soon as the segment holds a header.
IsFullEarly(len) == len >= HEADER_LEN

IsFull(len) == len >= SEGMENT_SIZE_LIMIT

(***************************************************************************)
(* Index (index.rs): a map key -> <<segment id, offset, value length>>.    *)
(***************************************************************************)
IndexNew == [k \in {} |-> <<0, 0, 0>>]

\* A faulty insert that keeps the entry a key already has.
IndexInsertKeepsOld(idx, key, seg_id, offset, len) ==
    [k \in DOMAIN idx \cup {key} |->
        IF k \in DOMAIN idx THEN idx[k] ELSE <<seg_id, offset, len>>]

IndexInsert(idx, key, seg_id, offset, len) ==
    [k \in DOMAIN idx \cup {key} |->
        IF k = key THEN <<seg_id, offset, len>> ELSE idx[k]]

\* A faulty remove that leaves the entry in place.
IndexRemoveKeepsEntry(idx, key) == idx

IndexRemove(idx, key) == [k \in DOMAIN idx \ {key} |-> idx[k]]

\* Index::get and what Index::remove returns: Some(entry) or None.
IndexGet(idx, key) ==
    IF key \in DOMAIN idx THEN [tag |-> "some", entry |-> idx[key]]
    ELSE [tag |-> "none"]

IndexContains(idx, key) == key \in DOMAIN idx

IndexLen(idx) == Cardinality(DOMAIN idx)

\* A faulty clear that leaves the entries in place.
IndexClearKeepsAll(idx) == idx

IndexClear(idx) == IndexNew

(***************************************************************************)
(* KVStore::rebuild_index.                                                 *)
(***************************************************************************)
\* engine.rs:159-162: the size by which the scan position advances after a
\* decoded record: 8 + 8 + key bytes + value bytes (0 for a Tombstone).
RebuildRecordSize(key, tomb, value) ==
    8 + 8 + Len(key) + (IF tomb THEN 0 ELSE Len(value))

\* The while loop over one segment: the index after the scan from pos.
\* RebuildRecord is one turn of the loop, r being what read_record_at(pos)
\* returned.
RECURSIVE RebuildSegment(_, _, _, _, _)
RECURSIVE RebuildRecord(_, _, _, _, _, _)
\* A faulty turn of the loop that goes on after a record that failed.
RebuildRecordSkipsFailed(data, len, id, pos, idx, r) ==
    IF r.tag = "some"
    THEN RebuildSegment(data, len, id,
             pos + RebuildRecordSize(r.key, r.tomb, r.value),
             IF r.tomb THEN IndexRemove(idx, r.key)
             ELSE IndexInsert(idx, r.key, id, pos, Len(r.value)))
    ELSE RebuildSegment(data, len, id, pos + HEADER_LEN + 1, idx)

RebuildRecord(data, len, id, pos, idx, r) ==
    IF r.tag = "some"
    THEN RebuildSegment(data, len, id,
             pos + RebuildRecordSize(r.key, r.tomb, r.value),
             IF r.tomb THEN IndexRemove(idx, r.key)
             ELSE IndexInsert(idx, r.key, id, pos, Len(r.value)))
    ELSE idx

RebuildSegment(data, len, id, pos, idx) ==
    IF pos >= len THEN idx
    ELSE RebuildRecord(data, len, id, pos, idx, ReadRecordAt(data, pos))

\* Whether the scan of one segment asks for a buffer of 2^31 bytes or more.
RECURSIVE RebuildAllocates(_, _, _)
RECURSIVE RebuildRecordAllocates(_, _, _, _)
RebuildRecordAllocates(data, len, pos, r) ==
    IF r.tag = "some"
    THEN RebuildAllocates(data, len,
             pos + RebuildRecordSize(r.key, r.tomb, r.value))
    ELSE r.tag = "err" /\ r.alloc

RebuildAllocates(data, len, pos) ==
    IF pos >= len THEN FALSE
    ELSE RebuildRecordAllocates(data, len, pos, ReadRecordAt(data, pos))

SetMax(S) == CHOOSE m \in S : \A x \in S : x <= m
SetMin(S) == CHOOSE m \in S : \A x \in S : m <= x

\* The for loop over the segments in ascending id order; files maps id -> bytes.
RECURSIVE RebuildIndex(_, _, _)
RebuildIndex(files, ids, idx) ==
    IF ids = {} THEN idx
    ELSE LET id == SetMin(ids)
         IN  RebuildIndex(files, ids \ {id},
                 RebuildSegment(files[id], Len(files[id]), id, 0, idx))

(***************************************************************************)
(* State.                                                                  *)
(*   disk       the store directory: segment id -> bytes of                *)
(*              segment-<id>.dat                                           *)
(*   tmp        the .compacting directory: whether it exists, and its      *)
(*              segment files                                              *)
(*   running    whether a KVStore value exists (FALSE after a kill)        *)
(*   segments   KVStore.segments: id -> Segment.  len is the cached        *)
(*              length; the file handle is the file of that id in disk,    *)
(*              or, once that file was removed from the directory while    *)
(*              the handle stayed open (linked = FALSE), the unlinked      *)
(*              file, whose bytes are kept in ghost                        *)
(*   index      KVStore.index                                              *)
(*   active_id  KVStore.active_id                                          *)
(*   res        the last operation: its name, its key and value arguments, *)
(*              and what it returned                                       *)
(*   nwrites, ncompacts, nopens   how much of the bounds is used           *)
(*   storage_lock, handlers   the Mutex of the volume server and the       *)
(*              handlers of its clients                                    *)
(*   appended   SpecSegment: the appends made to one Segment, each with    *)
(*              the offset it returned                                     *)
(*   scan       SpecRebuild: where the while loop of rebuild_index is (pc) *)
(*              and its variable pos                                       *)
(***************************************************************************)
VARIABLES disk, tmp, running, segments, index, active_id, res,
          nwrites, ncompacts, nopens,
          storage_lock, handlers, appended, scan

vars == <<disk, tmp, running, segments, index, active_id, res,
          nwrites, ncompacts, nopens, storage_lock, handlers,
          appended, scan>>

\* The volume server: the Mutex around the BlobStorage (handlers.rs:19) with
\* the handler that holds it, and where each running handler is.
Clients == {1, 2}
NoHolder == 0
NoScan == [pc |-> "idle", pos |-> 0]
Idle == [pc |-> "idle", op |-> "none", key |-> << >>, value |-> << >>]

\* A step that is not a call made by a handler.  (`appended` belongs to
\* SpecSegment and `scan` to SpecRebuild; they are touched nowhere else.)
NoServer == UNCHANGED <<storage_lock, handlers, appended, scan>>

\* A call of the BlobStorage returns: to the handler that holds the Mutex,
\* when the call was made through the volume server.
Called ==
    /\ storage_lock' = storage_lock
    /\ handlers' = [c \in Clients |->
                      IF c = storage_lock
                      THEN [handlers[c] EXCEPT !.pc = "called"]
                      ELSE handlers[c]]
    /\ UNCHANGED <<appended, scan>>

NoFiles == [id \in {} |-> << >>]
NoTmp == [exists |-> FALSE, files |-> NoFiles]
NoKey == << >>
NoValue == << >>
\* A killed process has no KVStore: the fields hold nothing.
NoSegments == [id \in {} |-> [len |-> 0, linked |-> TRUE, ghost |-> << >>]]
Ok == [tag |-> "ok"]

\* Err(StoreError::ActiveSegmentNotFound)
ActiveSegmentNotFound == [tag |-> "err", kind |-> "active_segment_not_found"]

\* Segment::open(dir, id) on the directory content d: the file is created
\* when absent, and the cached length is the file's length.
\* A faulty Segment::open that truncates the file it opens.
SegmentOpenTruncates(d, id) ==
    [i \in DOMAIN d \cup {id} |-> IF i = id THEN << >> ELSE d[i]]

SegmentOpenFiles(d, id) ==
    [i \in DOMAIN d \cup {id} |-> IF i \in DOMAIN d THEN d[i] ELSE << >>]

SegmentOpenHandle(d, id) ==
    [len |-> IF id \in DOMAIN d THEN Len(d[id]) ELSE 0,
     linked |-> TRUE, ghost |-> << >>]

\* The bytes a Segment's file handle reads.
Content(d, segs, id) == IF segs[id].linked THEN d[id] ELSE segs[id].ghost

\* fs::read_dir of the store directory: its segment files, and the
\* .compacting directory when there is one.
ReadDir(d, t) ==
    {[name |-> "segment", id |-> i] : i \in DOMAIN d}
    \cup (IF t.exists THEN {[name |-> ".compacting", id |-> 0]} ELSE {})

\* engine.rs:99-110: the ids parsed from the entries named segment-<id>.dat.
SegmentIds(d, t) == {e.id : e \in {x \in ReadDir(d, t) : x.name = "segment"}}

(***************************************************************************)
(* KVStore::open_with_config on the store directory (segment files d, temp *)
(* dir t): the segment files after it, and the fields of the store it      *)
(* returns.                                                                *)
(***************************************************************************)
\* engine.rs:112-134: the segments opened, the active one created when the
\* directory has none, and the index rebuilt.
OpenSegments(files, ids, active) ==
    [disk      |-> files,
     segments  |-> [id \in ids |-> SegmentOpenHandle(files, id)],
     index     |-> RebuildIndex(files, ids, IndexNew),
     active_id |-> active]

OpenActive(d, ids, active) ==
    OpenSegments(SegmentOpenFiles(d, active), ids \cup {active}, active)

\* A faulty open that makes the lowest id active.
OpenIdsLowest(d, ids) ==
    OpenActive(d, ids, IF ids = {} THEN 0 ELSE SetMin(ids))

OpenIds(d, ids) == OpenActive(d, ids, IF ids = {} THEN 0 ELSE SetMax(ids))

OpenStore(d, t) == OpenIds(d, SegmentIds(d, t))

\* Whether rebuild_index, on the directory content d, asks for a buffer of
\* 2^31 bytes or more.
OpenAllocates(d, t) ==
    \E id \in SegmentIds(d, t) : RebuildAllocates(d[id], Len(d[id]), 0)

(***************************************************************************)
(* KVStore::get, as a function of the store's fields.                      *)
(***************************************************************************)
GetIn(d, segs, idx, key) ==
    IF key \in DOMAIN idx
    THEN IF idx[key][1] \notin DOMAIN segs
         THEN [tag |-> "err", kind |-> "segment_not_found"]
         ELSE ReadValueAt(Content(d, segs, idx[key][1]), idx[key][2])
    ELSE [tag |-> "none"]

Get(key) == GetIn(disk, segments, index, key)

\* KVStore::list_keys, as a set.
\* A faulty list_keys that returns every key.
ListKeysAll == Keys

ListKeys == DOMAIN index

\* The vectors list_keys may return: the keys of the HashMap, in any order.
ListKeysVecs ==
    {o \in [1..Cardinality(ListKeys) -> ListKeys] :
        \A k \in ListKeys : \E i \in DOMAIN o : o[i] = k}

(***************************************************************************)
(* KVStore::stats, as a function of the store's fields.                    *)
(***************************************************************************)
\* engine.rs:375: self.segments.values().map(|s| s.len).sum()
RECURSIVE SumLens(_, _)
SumLens(segs, ids) ==
    IF ids = {} THEN 0
    ELSE LET i == CHOOSE x \in ids : TRUE
         IN  segs[i].len + SumLens(segs, ids \ {i})

\* A faulty stats that counts the bytes of the active segment only.
StatsInActiveOnly(segs, idx, aid) ==
    [num_keys          |-> Cardinality(DOMAIN idx),
     num_segments      |-> Cardinality(DOMAIN segs),
     total_bytes       |-> IF aid \in DOMAIN segs THEN segs[aid].len ELSE 0,
     active_segment_id |-> aid,
     oldest_segment_id |-> IF DOMAIN segs = {} THEN 0
                           ELSE SetMin(DOMAIN segs)]

StatsIn(segs, idx, aid) ==
    [num_keys          |-> Cardinality(DOMAIN idx),
     num_segments      |-> Cardinality(DOMAIN segs),
     total_bytes       |-> SumLens(segs, DOMAIN segs),
     active_segment_id |-> aid,
     oldest_segment_id |-> IF DOMAIN segs = {} THEN 0
                           ELSE SetMin(DOMAIN segs)]

Stats == StatsIn(segments, index, active_id)

(***************************************************************************)
(* The append of `bytes` through the handle of segment id                  *)
(* (Segment::append, Segment::append_tombstone): the offset returned is    *)
(* the end of the file before the write, the cached length its end after.  *)
(***************************************************************************)
\* A faulty append that returns the start of the file as the offset.
AppendOffsetZero(d, segs, id) == 0

AppendOffset(d, segs, id) == Len(Content(d, segs, id))

\* A faulty append that writes the record to every segment file.
AppendFilesAll(d, segs, id, bytes) == [i \in DOMAIN d |-> d[i] \o bytes]

AppendFiles(d, segs, id, bytes) ==
    IF segs[id].linked THEN [d EXCEPT ![id] = @ \o bytes] ELSE d

\* A faulty append that leaves the cached length as it was.
AppendHandlesStaleLen(d, segs, id, bytes) ==
    [segs EXCEPT ![id] =
        [len    |-> @.len,
         linked |-> @.linked,
         ghost  |-> IF @.linked THEN << >> ELSE @.ghost \o bytes]]

AppendHandles(d, segs, id, bytes) ==
    [segs EXCEPT ![id] =
        [len    |-> Len(Content(d, segs, id)) + Len(bytes),
         linked |-> @.linked,
         ghost  |-> IF @.linked THEN << >> ELSE @.ghost \o bytes]]

\* engine.rs:216-220 and 312-316: the rotation of set and delete.  The id
\* the record goes to, and the directory and the segment map after it.
RotatedId == IF IsFull(segments[active_id].len) THEN active_id + 1 ELSE active_id

RotatedFiles ==
    IF IsFull(segments[active_id].len)
    THEN SegmentOpenFiles(disk, active_id + 1) ELSE disk

RotatedHandles ==
    IF IsFull(segments[active_id].len)
    THEN [id \in DOMAIN segments \cup {active_id + 1} |->
            IF id = active_id + 1 THEN SegmentOpenHandle(disk, id)
            ELSE segments[id]]
    ELSE segments

Init ==
    /\ \E st \in {OpenStore(NoFiles, NoTmp)} :
          /\ disk = st.disk
          /\ segments = st.segments
          /\ index = st.index
          /\ active_id = st.active_id
    /\ tmp = NoTmp
    /\ running = TRUE
    /\ res = [op |-> "open", key |-> NoKey, value |-> NoValue, out |-> Ok]
    /\ nwrites = 0
    /\ ncompacts = 0
    /\ nopens = 0
    /\ storage_lock = NoHolder
    /\ handlers = [c \in Clients |-> Idle]
    /\ appended = << >>
    /\ scan = NoScan

(***************************************************************************)
(* KVStore::set(key, value).                                               *)
(***************************************************************************)
SetOp(key, value) ==
    /\ running
    /\ nwrites < MaxWrites
    /\ IF active_id \in DOMAIN segments
       THEN \E aid \in {RotatedId}, files \in {RotatedFiles},
               segs \in {RotatedHandles}, bytes \in {PutBytes(key, value)} :
                /\ disk' = AppendFiles(files, segs, aid, bytes)
                /\ segments' = AppendHandles(files, segs, aid, bytes)
                /\ active_id' = aid
                /\ index' = IndexInsert(index, key, aid,
                                        AppendOffset(files, segs, aid),
                                        Len(value))
                /\ res' = [op |-> "set", key |-> key, value |-> value,
                           out |-> Ok]
       ELSE /\ UNCHANGED <<disk, segments, active_id, index>>
            /\ res' = [op |-> "set", key |-> key, value |-> value,
                       out |-> ActiveSegmentNotFound]
    /\ nwrites' = nwrites + 1
    /\ UNCHANGED <<tmp, running, ncompacts, nopens>>
    /\ Called

(***************************************************************************)
(* KVStore::delete(key).                                                   *)
(***************************************************************************)
\* A faulty delete that writes a Tombstone for a key it does not have.
DeleteAbsentWritesTombstone(key) ==
    /\ running
    /\ key \notin DOMAIN index
    /\ nwrites < MaxWrites
    /\ active_id \in DOMAIN segments
    /\ disk' = AppendFiles(RotatedFiles, RotatedHandles, RotatedId,
                           TombstoneBytes(key))
    /\ segments' = AppendHandles(RotatedFiles, RotatedHandles, RotatedId,
                                 TombstoneBytes(key))
    /\ active_id' = RotatedId
    /\ res' = [op |-> "delete", key |-> key, value |-> NoValue, out |-> Ok]
    /\ nwrites' = nwrites + 1
    /\ UNCHANGED <<tmp, running, index, ncompacts, nopens>>
    /\ Called

DeleteAbsent(key) ==
    /\ running
    /\ key \notin DOMAIN index
    /\ res' = [op |-> "delete", key |-> key, value |-> NoValue, out |-> Ok]
    /\ UNCHANGED <<disk, tmp, running, segments, index, active_id,
                   nwrites, ncompacts, nopens>>
    /\ Called

DeletePresent(key) ==
    /\ running
    /\ key \in DOMAIN index
    /\ nwrites < MaxWrites
    /\ IF active_id \in DOMAIN segments
       THEN \E aid \in {RotatedId}, files \in {RotatedFiles},
               segs \in {RotatedHandles}, bytes \in {TombstoneBytes(key)} :
                /\ disk' = AppendFiles(files, segs, aid, bytes)
                /\ segments' = AppendHandles(files, segs, aid, bytes)
                /\ active_id' = aid
                /\ index' = IndexRemove(index, key)
                /\ res' = [op |-> "delete", key |-> key, value |-> NoValue,
                           out |-> Ok]
       ELSE /\ UNCHANGED <<disk, segments, active_id, index>>
            /\ res' = [op |-> "delete", key |-> key, value |-> NoValue,
                       out |-> ActiveSegmentNotFound]
    /\ nwrites' = nwrites + 1
    /\ UNCHANGED <<tmp, running, ncompacts, nopens>>
    /\ Called

DeleteOp(key) == DeleteAbsent(key) \/ DeletePresent(key)

(***************************************************************************)
(* set or delete on a full active segment, the Segment::open of the next   *)
(* segment failing (engine.rs:216-218, 312-314): active_id is already      *)
(* incremented when `?` returns the error.                                 *)
(***************************************************************************)
IoError == [tag |-> "err", kind |-> "io"]

SetFailsRotate(key, value) ==
    /\ running
    /\ nwrites < MaxWrites
    /\ active_id \in DOMAIN segments
    /\ IsFull(segments[active_id].len)
    /\ active_id' = active_id + 1
    /\ res' = [op |-> "set", key |-> key, value |-> value, out |-> IoError]
    /\ nwrites' = nwrites + 1
    /\ UNCHANGED <<disk, tmp, running, segments, index, ncompacts, nopens>>
    /\ Called

DeleteFailsRotate(key) ==
    /\ running
    /\ nwrites < MaxWrites
    /\ key \in DOMAIN index
    /\ active_id \in DOMAIN segments
    /\ IsFull(segments[active_id].len)
    /\ active_id' = active_id + 1
    /\ res' = [op |-> "delete", key |-> key, value |-> NoValue,
               out |-> IoError]
    /\ nwrites' = nwrites + 1
    /\ UNCHANGED <<disk, tmp, running, segments, index, ncompacts, nopens>>
    /\ Called

(***************************************************************************)
(* KVStore::get(key): res records what it returns.                         *)
(***************************************************************************)
\* A faulty get that drops the index entry of a key whose read failed.
GetOpDropsFailed(key) ==
    /\ running
    /\ res' = [op |-> "get", key |-> key, value |-> NoValue, out |-> Get(key)]
    /\ index' = IF Get(key).tag = "err" THEN IndexRemove(index, key) ELSE index
    /\ UNCHANGED <<disk, tmp, running, segments, active_id,
                   nwrites, ncompacts, nopens>>
    /\ Called

GetOp(key) ==
    /\ running
    /\ res' = [op |-> "get", key |-> key, value |-> NoValue, out |-> Get(key)]
    /\ UNCHANGED <<disk, tmp, running, segments, index, active_id,
                   nwrites, ncompacts, nopens>>
    /\ Called

(***************************************************************************)
(* KVStore::list_keys() and KVStore::stats(): res records what they        *)
(* return.                                                                 *)
(***************************************************************************)
ListKeysOp ==
    /\ running
    /\ res' = [op |-> "list_keys", key |-> NoKey, value |-> NoValue,
               out |-> [tag |-> "keys", keys |-> ListKeys]]
    /\ UNCHANGED <<disk, tmp, running, segments, index, active_id,
                   nwrites, ncompacts, nopens>>
    /\ Called

StatsOp ==
    /\ running
    /\ res' = [op |-> "stats", key |-> NoKey, value |-> NoValue,
               out |-> [tag |-> "stats", stats |-> Stats]]
    /\ UNCHANGED <<disk, tmp, running, segments, index, active_id,
                   nwrites, ncompacts, nopens>>
    /\ Called

(***************************************************************************)
(* The store is dropped and KVStore::open is called on the same directory. *)
(***************************************************************************)
Reopen ==
    /\ running
    /\ nopens < MaxOpens
    /\ \E st \in {OpenStore(disk, tmp)} :
          /\ disk' = st.disk
          /\ segments' = st.segments
          /\ index' = st.index
          /\ active_id' = st.active_id
    /\ res' = [op |-> "reopen", key |-> NoKey, value |-> NoValue, out |-> Ok]
    /\ nopens' = nopens + 1
    /\ UNCHANGED <<tmp, running, nwrites, ncompacts>>
    /\ NoServer

(***************************************************************************)
(* KVStore::open on the directory a killed process left.                   *)
(***************************************************************************)
Open ==
    /\ ~running
    /\ nopens < MaxOpens
    /\ \E st \in {OpenStore(disk, tmp)} :
          /\ disk' = st.disk
          /\ segments' = st.segments
          /\ index' = st.index
          /\ active_id' = st.active_id
    /\ running' = TRUE
    /\ res' = [op |-> "open", key |-> NoKey, value |-> NoValue, out |-> Ok]
    /\ nopens' = nopens + 1
    /\ UNCHANGED <<tmp, nwrites, ncompacts>>
    /\ NoServer

\* segment.rs:114: vec![0u8; key_len as usize] with a key_len of 2^31 or more
\* read from a misplaced header.  Where the allocation fails the process
\* aborts inside open, and no store is returned; the open is tried again.
OpenAborts ==
    /\ nopens < MaxOpens
    /\ res.out.tag # "abort"
    /\ OpenAllocates(disk, tmp)
    /\ running' = FALSE
    /\ disk' = OpenStore(disk, tmp).disk
    /\ res' = [op |-> "open", key |-> NoKey, value |-> NoValue,
               out |-> [tag |-> "abort"]]
    /\ segments' = NoSegments
    /\ index' = IndexNew
    /\ active_id' = 0
    /\ UNCHANGED <<tmp, nwrites, ncompacts, nopens>>
    /\ NoServer

(***************************************************************************)
(* The process is killed inside set (tomb = FALSE) or delete (tomb = TRUE) *)
(* when the first n bytes of the record are in the file; the rotation,     *)
(* which comes first, is complete.                                         *)
(***************************************************************************)
KillInWrite(key, tomb, value, n) ==
    /\ running
    /\ nwrites < MaxWrites
    /\ nopens < MaxOpens
    /\ active_id \in DOMAIN segments
    /\ tomb => key \in DOMAIN index /\ value = << >>
    /\ n \in TornCuts
    /\ \E bytes \in {IF tomb THEN TombstoneBytes(key) ELSE PutBytes(key, value)} :
          /\ n < Len(bytes)
          /\ disk' = AppendFiles(RotatedFiles, RotatedHandles, RotatedId,
                                 SubSeq(bytes, 1, n))
    /\ running' = FALSE
    /\ res' = [op |-> "kill_write", key |-> key, value |-> value,
               out |-> [tag |-> "killed", tomb |-> tomb, cut |-> n]]
    /\ nwrites' = nwrites + 1
    /\ segments' = NoSegments
    /\ index' = IndexNew
    /\ active_id' = 0
    /\ UNCHANGED <<tmp, ncompacts, nopens>>
    /\ NoServer

(***************************************************************************)
(* compact_segments (compaction.rs).                                       *)
(***************************************************************************)
\* The orders in which index.keys() may enumerate the keys of a HashMap.
KeyOrders ==
    {o \in [1..Cardinality(DOMAIN index) -> DOMAIN index] :
        \A i, j \in DOMAIN o : o[i] = o[j] => i = j}

\* compaction.rs:25-32: a stale temp dir is removed, a fresh one created.
\* A faulty preparation that keeps a temp dir it finds.
CompactPrepareKeepsStale(t) == [exists |-> TRUE, files |-> t.files]

CompactPrepare(t) == [exists |-> TRUE, files |-> NoFiles]

\* compaction.rs:35-45: live_data; a key whose record cannot be read is left out.
\* A faulty live_data that takes an empty value for a deleted key.
LiveEntrySkipsEmpty(key, r) ==
    IF r.tag = "value" /\ r.value # << >> THEN << <<key, r.value>> >> ELSE << >>

LiveEntry(key, r) ==
    IF r.tag = "value" THEN << <<key, r.value>> >> ELSE << >>

\* A faulty live_data that takes the first key enumerated only.
LiveDataFirstOnly(order) ==
    IF order = << >> THEN << >>
    ELSE LiveEntry(Head(order), Get(Head(order)))

RECURSIVE LiveData(_)
LiveData(order) ==
    IF order = << >> THEN << >>
    ELSE LiveEntry(Head(order), Get(Head(order))) \o LiveData(Tail(order))

\* compaction.rs:57-73: the first n entries of live written to the temp dir,
\* from the state [files, active, index] of the loop.
\* compaction.rs:59-65: the rotation of the loop.
\* A faulty rotation that opens a new segment before every entry.
CompactRotateAlways(st) ==
    [files  |-> SegmentOpenFiles(st.files, st.active + 1),
     active |-> st.active + 1,
     index  |-> st.index]

CompactRotate(st) ==
    IF IsFull(Len(st.files[st.active]))
    THEN [files  |-> SegmentOpenFiles(st.files, st.active + 1),
          active |-> st.active + 1,
          index  |-> st.index]
    ELSE st

\* compaction.rs:68-72: the append and the insert into new_index.
\* A faulty append that writes the record of a live key twice.
CompactAppendTwice(st, key, value) ==
    [files  |-> [st.files EXCEPT
                    ![st.active] = @ \o PutBytes(key, value)
                                     \o PutBytes(key, value)],
     active |-> st.active,
     index  |-> IndexInsert(st.index, key, st.active,
                            Len(st.files[st.active]), Len(value))]

CompactAppend(st, key, value) ==
    [files  |-> [st.files EXCEPT ![st.active] = @ \o PutBytes(key, value)],
     active |-> st.active,
     index  |-> IndexInsert(st.index, key, st.active,
                            Len(st.files[st.active]), Len(value))]

RECURSIVE CompactWrite(_, _, _)
CompactWrite(st, live, n) ==
    IF n = 0 \/ live = << >> THEN st
    ELSE CompactWrite(
             CompactAppend(CompactRotate(st), Head(live)[1], Head(live)[2]),
             Tail(live), n - 1)

\* compaction.rs:47-76: the new segments, new_active_id and new_index after
\* the first n live entries (all of them when n is not less than their number).
CompactNew(order, n) ==
    CompactWrite([files  |-> SegmentOpenFiles(CompactPrepare(tmp).files, 0),
                  active |-> 0,
                  index  |-> IndexNew],
                 LiveData(order), n)

\* new_segments.keys()
NewIds(new) == 0..new.active

\* compaction.rs:80: the ids of the old segments whose file exists.
OldIds == DOMAIN segments \cap DOMAIN disk

\* compaction.rs:83-102: the store directory once the old segment files of
\* `removed` are removed and the new ones of `moved` are moved in.
\* A faulty swap that removes no old segment file.
SwapFilesKeepsOld(new, removed, moved) ==
    [id \in DOMAIN disk \cup moved |->
        IF id \in moved THEN new.files[id] ELSE disk[id]]

SwapFiles(new, removed, moved) ==
    [id \in (DOMAIN disk \ removed) \cup moved |->
        IF id \in moved THEN new.files[id] ELSE disk[id]]

\* The temp dir while the swap is at that point.
SwapTmp(new, moved) ==
    [exists |-> TRUE,
     files |-> [id \in DOMAIN new.files \ moved |-> new.files[id]]]

\* compact() returns Ok.
CompactOp(order) ==
    /\ running
    /\ ncompacts < MaxCompacts
    /\ \E new \in {CompactNew(order, Len(order))} :
          /\ disk' = SwapFiles(new, OldIds, NewIds(new))
          /\ tmp' = NoTmp
          /\ segments' = [id \in NewIds(new) |->
                            SegmentOpenHandle(new.files, id)]
          /\ index' = new.index
          /\ active_id' = new.active
    /\ res' = [op |-> "compact", key |-> NoKey, value |-> NoValue,
               out |-> [tag |-> "ok", stale |-> tmp.exists]]
    /\ ncompacts' = ncompacts + 1
    /\ UNCHANGED <<running, nwrites, nopens>>
    /\ NoServer

\* The process is killed inside compact() before the swap (compaction.rs:25-76),
\* when n of the live entries are in the temp dir.
KillInCompactFill(order, n) ==
    /\ running
    /\ nopens < MaxOpens
    /\ n \in 0..Len(LiveData(order))
    /\ tmp' = [exists |-> TRUE, files |-> CompactNew(order, n).files]
    /\ running' = FALSE
    /\ res' = [op |-> "kill_compact_fill", key |-> NoKey, value |-> NoValue,
               out |-> [tag |-> "killed"]]
    /\ segments' = NoSegments
    /\ index' = IndexNew
    /\ active_id' = 0
    /\ UNCHANGED <<disk, nwrites, ncompacts, nopens>>
    /\ NoServer

\* The process is killed inside the swap (compaction.rs:83-105): the old files
\* of `removed` are gone (at least one), and the new files of `moved` are in
\* the store directory (the moves start once every old file is removed).
KillInCompactSwap(order, removed, moved) ==
    /\ running
    /\ nopens < MaxOpens
    /\ removed \subseteq OldIds
    /\ removed # {}
    /\ \E new \in {CompactNew(order, Len(order))} :
          /\ moved \subseteq NewIds(new)
          /\ moved # {} => removed = OldIds
          /\ disk' = SwapFiles(new, removed, moved)
          /\ tmp' = SwapTmp(new, moved)
          /\ res' = [op |-> "kill_compact_swap", key |-> NoKey,
                     value |-> NoValue,
                     out |-> [tag |-> "killed", removed |-> removed,
                              moved |-> moved, new |-> NewIds(new)]]
    /\ running' = FALSE
    /\ segments' = NoSegments
    /\ index' = IndexNew
    /\ active_id' = 0
    /\ UNCHANGED <<nwrites, ncompacts, nopens>>
    /\ NoServer

(***************************************************************************)
(* compact() returns Err(CompactionFailed): a file system call of          *)
(* compact_segments fails and `?` returns from the function there.  The    *)
(* store keeps running with the fields it has at that point.               *)
(***************************************************************************)
CompactionFailed(stage) ==
    [tag |-> "err", kind |-> "compaction_failed", stage |-> stage]

\* The handles of the segments whose files have been removed: an open file
\* stays readable and writable through its handle once it is unlinked.
Unlink(d, segs, ids) ==
    [id \in DOMAIN segs |->
        IF id \in ids /\ segs[id].linked
        THEN [len |-> segs[id].len, linked |-> FALSE, ghost |-> d[id]]
        ELSE segs[id]]

\* compaction.rs:57-73: the append of live entry n + 1 fails.
CompactFailsFill(order, n) ==
    /\ running
    /\ ncompacts < MaxCompacts
    /\ n \in 0..(Len(LiveData(order)) - 1)
    /\ tmp' = [exists |-> TRUE, files |-> CompactNew(order, n).files]
    /\ res' = [op |-> "compact", key |-> NoKey, value |-> NoValue,
               out |-> CompactionFailed("fill")]
    /\ ncompacts' = ncompacts + 1
    /\ UNCHANGED <<disk, running, segments, index, active_id, nwrites, nopens>>
    /\ NoServer

\* compaction.rs:83-93: fs::remove_file fails once the files of `removed`
\* are removed.
CompactFailsRemove(order, removed) ==
    /\ running
    /\ ncompacts < MaxCompacts
    /\ removed \subseteq OldIds
    /\ removed # OldIds
    /\ \E new \in {CompactNew(order, Len(order))} :
          /\ disk' = SwapFiles(new, removed, {})
          /\ tmp' = SwapTmp(new, {})
    /\ segments' = Unlink(disk, segments, removed)
    /\ res' = [op |-> "compact", key |-> NoKey, value |-> NoValue,
               out |-> CompactionFailed("remove")]
    /\ ncompacts' = ncompacts + 1
    /\ UNCHANGED <<running, index, active_id, nwrites, nopens>>
    /\ NoServer

\* compaction.rs:96-102: fs::rename fails once the files of `moved` are moved.
CompactFailsRename(order, moved) ==
    /\ running
    /\ ncompacts < MaxCompacts
    /\ \E new \in {CompactNew(order, Len(order))} :
          /\ moved \subseteq NewIds(new)
          /\ moved # NewIds(new)
          /\ disk' = SwapFiles(new, OldIds, moved)
          /\ tmp' = SwapTmp(new, moved)
    /\ segments' = Unlink(disk, segments, OldIds)
    /\ res' = [op |-> "compact", key |-> NoKey, value |-> NoValue,
               out |-> CompactionFailed("rename")]
    /\ ncompacts' = ncompacts + 1
    /\ UNCHANGED <<running, index, active_id, nwrites, nopens>>
    /\ NoServer

\* compaction.rs:108-114: store.segments is cleared, and Segment::open fails
\* once the segments of `opened` are in it.
CompactFailsReopen(order, opened) ==
    /\ running
    /\ ncompacts < MaxCompacts
    /\ \E new \in {CompactNew(order, Len(order))} :
          /\ opened \subseteq NewIds(new)
          /\ opened # NewIds(new)
          /\ disk' = SwapFiles(new, OldIds, NewIds(new))
          /\ segments' = [id \in opened |-> SegmentOpenHandle(new.files, id)]
    /\ tmp' = NoTmp
    /\ res' = [op |-> "compact", key |-> NoKey, value |-> NoValue,
               out |-> CompactionFailed("reopen")]
    /\ ncompacts' = ncompacts + 1
    /\ UNCHANGED <<running, index, active_id, nwrites, nopens>>
    /\ NoServer

(***************************************************************************)
(* A byte of a stored record's key or value changes on disk, the header    *)
(* (lengths and checksum) staying as written.                              *)
(***************************************************************************)
\* The length of the record that append or append_tombstone wrote at pos.
RecordLenAt(data, pos) ==
    RecordSize(FromLeBytes(SubSeq(data, pos + 1, pos + 8)).n,
               SubSeq(data, pos + 9, pos + 16) = U64_MAX_BYTES,
               FromLeBytes(SubSeq(data, pos + 9, pos + 16)).n)

\* The offsets at which the records of a file start.
RECURSIVE RecordStarts(_, _)
RecordStarts(data, pos) ==
    IF pos + HEADER_LEN > Len(data) THEN {}
    ELSE {pos} \cup RecordStarts(data, pos + RecordLenAt(data, pos))

\* Every record of every segment file decodes.
AllRecordsIntact ==
    \A id \in DOMAIN disk : \A off \in RecordStarts(disk[id], 0) :
        ReadRecordAt(disk[id], off).tag = "some"

\* Byte i of the payload (key, then value) of the record at off in segment id
\* becomes b.
CorruptByte(id, off, i, b) ==
    /\ running
    /\ nopens = 0
    /\ AllRecordsIntact
    /\ id \in DOMAIN disk
    /\ off \in RecordStarts(disk[id], 0)
    /\ i \in 1..(RecordLenAt(disk[id], off) - HEADER_LEN)
    /\ disk[id][off + HEADER_LEN + i] # b
    /\ disk' = [disk EXCEPT ![id][off + HEADER_LEN + i] = b]
    /\ res' = [op |-> "corrupt", key |-> ReadRecordAt(disk[id], off).key,
               value |-> NoValue,
               out |-> [tag |-> "corrupted", id |-> id, offset |-> off]]
    /\ UNCHANGED <<tmp, running, segments, index, active_id,
                   nwrites, ncompacts, nopens>>
    /\ NoServer

(***************************************************************************)
(* Spec: the operations of the store, without kills and I/O errors.        *)
(***************************************************************************)
Next ==
    \/ \E k \in Keys, v \in Vals : SetOp(k, v)
    \/ \E k \in Keys : DeleteOp(k)
    \/ \E k \in Keys : GetOp(k)
    \/ \E o \in KeyOrders : CompactOp(o)
    \/ Reopen
    \/ OpenAborts
    \/ Open

Spec == Init /\ [][Next]_vars

(***************************************************************************)
(* SpecKill: the process may be killed inside a write or inside compact(), *)
(* and the store is opened again on what the kill left.                    *)
(***************************************************************************)
NextKill ==
    \/ \E k \in Keys, v \in Vals : SetOp(k, v)
    \/ \E k \in Keys : DeleteOp(k)
    \/ \E o \in KeyOrders : CompactOp(o)
    \/ \E k \in Keys, t \in BOOLEAN, v \in Vals, n \in TornCuts :
          KillInWrite(k, t, v, n)
    \/ \E o \in KeyOrders, n \in 0..Cardinality(Keys) : KillInCompactFill(o, n)
    \/ \E o \in KeyOrders, r \in SUBSET OldIds, m \in SUBSET (0..MaxWrites) :
          KillInCompactSwap(o, r, m)
    \/ OpenAborts
    \/ Open

SpecKill == Init /\ [][NextKill]_vars

(***************************************************************************)
(* SpecFault: a file system call inside compact() may fail.                *)
(***************************************************************************)
NextFault ==
    \/ \E k \in Keys, v \in Vals : SetOp(k, v)
    \/ \E k \in Keys : DeleteOp(k)
    \/ \E k \in Keys : GetOp(k)
    \/ \E o \in KeyOrders : CompactOp(o)
    \/ \E o \in KeyOrders, n \in 0..Cardinality(Keys) : CompactFailsFill(o, n)
    \/ \E o \in KeyOrders, r \in SUBSET OldIds : CompactFailsRemove(o, r)
    \/ \E o \in KeyOrders, m \in SUBSET (0..MaxWrites) : CompactFailsRename(o, m)
    \/ \E o \in KeyOrders, m \in SUBSET (0..MaxWrites) : CompactFailsReopen(o, m)
    \/ Reopen

SpecFault == Init /\ [][NextFault]_vars

(***************************************************************************)
(* SpecCorrupt: one byte of one record's payload may change on disk.       *)
(***************************************************************************)
NextCorrupt ==
    \/ \E k \in Keys, v \in Vals : SetOp(k, v)
    \/ \E k \in Keys : DeleteOp(k)
    \/ \E k \in Keys : GetOp(k)
    \/ \E id \in DOMAIN disk : \E off \in RecordStarts(disk[id], 0) :
          \E i \in 1..2, b \in CorruptBytes : CorruptByte(id, off, i, b)
    \/ Reopen

SpecCorrupt == Init /\ [][NextCorrupt]_vars

(***************************************************************************)
(* SpecCompactCorrupt: compact() on a store one of whose records has a     *)
(* changed payload byte.                                                   *)
(***************************************************************************)
NextCompactCorrupt ==
    \/ \E k \in Keys, v \in Vals : SetOp(k, v)
    \/ \E k \in Keys : DeleteOp(k)
    \/ \E k \in Keys : GetOp(k)
    \/ \E id \in DOMAIN disk : \E off \in RecordStarts(disk[id], 0) :
          \E i \in 1..2, b \in CorruptBytes : CorruptByte(id, off, i, b)
    \/ \E o \in KeyOrders : CompactOp(o)

SpecCompactCorrupt == Init /\ [][NextCompactCorrupt]_vars

(***************************************************************************)
(* SpecRotate: the creation of the next segment may fail in a rotation.    *)
(***************************************************************************)
NextRotate ==
    \/ \E k \in Keys, v \in Vals : SetOp(k, v)
    \/ \E k \in Keys : DeleteOp(k)
    \/ \E k \in Keys : GetOp(k)
    \/ \E k \in Keys, v \in Vals : SetFailsRotate(k, v)
    \/ \E k \in Keys : DeleteFailsRotate(k)
    \/ \E o \in KeyOrders : CompactOp(o)
    \/ Reopen

SpecRotate == Init /\ [][NextRotate]_vars

(***************************************************************************)
(* The volume server (volume/handlers.rs over volume/storage.rs): the      *)
(* handlers call BlobStorage::put, get and delete, which call KVStore::set,*)
(* get and delete, and turn what they return into a response.              *)
(***************************************************************************)
CREATED == 201
OK == 200
NOT_FOUND == 404
NO_CONTENT == 204
INTERNAL_SERVER_ERROR == 500

NoBody == << >>

\* handlers.rs:53-62: the response of put_blob to what storage.put returned.
PutBlobResponse(out) ==
    IF out = Ok THEN [status |-> CREATED, body |-> NoBody]
    ELSE [status |-> INTERNAL_SERVER_ERROR, body |-> NoBody]

\* handlers.rs:67-83: the response of get_blob to what storage.get returned.
\* A faulty get_blob that answers an absent key with 200 and no byte.
GetBlobResponseNoneIsOk(out) ==
    IF out.tag = "value" THEN [status |-> OK, body |-> out.value]
    ELSE IF out.tag = "none" THEN [status |-> OK, body |-> NoBody]
    ELSE [status |-> INTERNAL_SERVER_ERROR, body |-> NoBody]

GetBlobResponse(out) ==
    IF out.tag = "value" THEN [status |-> OK, body |-> out.value]
    ELSE IF out.tag = "none" THEN [status |-> NOT_FOUND, body |-> NoBody]
    ELSE [status |-> INTERNAL_SERVER_ERROR, body |-> NoBody]

\* handlers.rs:88-97: the response of delete_blob to what storage.delete
\* returned.
DeleteBlobResponse(out) ==
    IF out = Ok THEN [status |-> NO_CONTENT, body |-> NoBody]
    ELSE [status |-> INTERNAL_SERVER_ERROR, body |-> NoBody]

\* The response to the last request, res recording the call it made.
Response ==
    IF res.op = "set" THEN PutBlobResponse(res.out)
    ELSE IF res.op = "get" THEN GetBlobResponse(res.out)
    ELSE IF res.op = "delete" THEN DeleteBlobResponse(res.out)
    ELSE IF res.op \in {"list_keys", "stats"}
         THEN [status |-> OK, body |-> res.out]
    ELSE [status |-> 0, body |-> NoBody]

\* POST /blobs/:key, GET /blobs/:key, DELETE /blobs/:key.
put_blob(key, body) == SetOp(key, body) \/ SetFailsRotate(key, body)

get_blob(key) == GetOp(key)

delete_blob(key) == DeleteOp(key) \/ DeleteFailsRotate(key)

(***************************************************************************)
(* SpecVolume: requests to the volume server; the creation of a segment    *)
(* may fail and a byte of a stored record may change on disk.              *)
(***************************************************************************)
NextVolume ==
    \/ \E k \in Keys, v \in Vals : put_blob(k, v)
    \/ \E k \in Keys : get_blob(k)
    \/ \E k \in Keys : delete_blob(k)
    \/ \E id \in DOMAIN disk : \E off \in RecordStarts(disk[id], 0) :
          \E i \in 1..2, b \in CorruptBytes : CorruptByte(id, off, i, b)

SpecVolume == Init /\ [][NextVolume]_vars

(***************************************************************************)
(* The handlers as they run concurrently: each one locks the Mutex         *)
(* (state.storage.lock().unwrap(), handlers.rs:37, 52, 66, 87, 101), makes *)
(* its call of the BlobStorage, and drops the guard when it returns its    *)
(* response.                                                               *)
(***************************************************************************)
\* The requests of the routes of create_router.
Requests ==
    {[op |-> "put", key |-> k, value |-> v] : k \in Keys, v \in Vals}
    \cup {[op |-> o, key |-> k, value |-> NoValue] :
            o \in {"get", "delete"}, k \in Keys}
    \cup {[op |-> o, key |-> NoKey, value |-> NoValue] :
            o \in {"list", "health"}}

\* The handler of client c is started for request r.
HandlerStart(c, r) ==
    /\ running
    /\ handlers[c].pc = "idle"
    /\ r.op \in {"put", "delete"} => nwrites < MaxWrites
    /\ handlers' = [handlers EXCEPT ![c] = [pc |-> "waiting", op |-> r.op,
                                            key |-> r.key, value |-> r.value]]
    /\ UNCHANGED <<disk, tmp, running, segments, index, active_id, res,
                   nwrites, ncompacts, nopens, storage_lock, appended,
                   scan>>

\* A faulty lock that does not wait for the Mutex to be free.
HandlerLockNoWait(c) ==
    /\ handlers[c].pc = "waiting"
    /\ storage_lock' = c
    /\ handlers' = [handlers EXCEPT ![c].pc = "locked"]
    /\ UNCHANGED <<disk, tmp, running, segments, index, active_id, res,
                   nwrites, ncompacts, nopens, appended, scan>>

\* storage.lock(): the handler gets the Mutex once it is free.
HandlerLock(c) ==
    /\ handlers[c].pc = "waiting"
    /\ storage_lock = NoHolder
    /\ storage_lock' = c
    /\ handlers' = [handlers EXCEPT ![c].pc = "locked"]
    /\ UNCHANGED <<disk, tmp, running, segments, index, active_id, res,
                   nwrites, ncompacts, nopens, appended, scan>>

\* The call the handler makes while it holds the Mutex.
HandlerCall(c) ==
    /\ storage_lock = c
    /\ handlers[c].pc = "locked"
    /\ IF handlers[c].op = "put"
       THEN put_blob(handlers[c].key, handlers[c].value)
       ELSE IF handlers[c].op = "get" THEN get_blob(handlers[c].key)
       ELSE IF handlers[c].op = "delete" THEN delete_blob(handlers[c].key)
       ELSE IF handlers[c].op = "list" THEN ListKeysOp
       ELSE StatsOp

\* The handler returns its response; the guard is dropped.
HandlerReturn(c) ==
    /\ storage_lock = c
    /\ handlers[c].pc = "called"
    /\ storage_lock' = NoHolder
    /\ handlers' = [handlers EXCEPT ![c] = Idle]
    /\ UNCHANGED <<disk, tmp, running, segments, index, active_id, res,
                   nwrites, ncompacts, nopens, appended, scan>>

NextServe ==
    \/ \E c \in Clients, r \in Requests : HandlerStart(c, r)
    \/ \E c \in Clients : HandlerLock(c)
    \/ \E c \in Clients : HandlerCall(c)
    \/ \E c \in Clients : HandlerReturn(c)

SpecServe == Init /\ [][NextServe]_vars

(***************************************************************************)
(* SpecSegment: one Segment, opened on an empty directory as segment 0,    *)
(* and the calls of append and append_tombstone on it (segment.rs:47-87).  *)
(* Init is the state after Segment::open(dir, 0).                          *)
(***************************************************************************)
SegmentAppend(key, value) ==
    /\ Len(appended) < MaxAppends
    /\ disk' = AppendFiles(disk, segments, 0, PutBytes(key, value))
    /\ segments' = AppendHandles(disk, segments, 0, PutBytes(key, value))
    /\ appended' = Append(appended,
                          [offset |-> AppendOffset(disk, segments, 0),
                           key |-> key, tomb |-> FALSE, value |-> value])
    /\ res' = [op |-> "append", key |-> key, value |-> value,
               out |-> [tag |-> "offset",
                        offset |-> AppendOffset(disk, segments, 0)]]
    /\ UNCHANGED <<tmp, running, index, active_id, nwrites, ncompacts,
                   nopens, storage_lock, handlers, scan>>

SegmentAppendTombstone(key) ==
    /\ Len(appended) < MaxAppends
    /\ disk' = AppendFiles(disk, segments, 0, TombstoneBytes(key))
    /\ segments' = AppendHandles(disk, segments, 0, TombstoneBytes(key))
    /\ appended' = Append(appended,
                          [offset |-> AppendOffset(disk, segments, 0),
                           key |-> key, tomb |-> TRUE, value |-> NoValue])
    /\ res' = [op |-> "append_tombstone", key |-> key, value |-> NoValue,
               out |-> [tag |-> "offset",
                        offset |-> AppendOffset(disk, segments, 0)]]
    /\ UNCHANGED <<tmp, running, index, active_id, nwrites, ncompacts,
                   nopens, storage_lock, handlers, scan>>

NextSegment ==
    \/ \E k \in SegKeys, v \in Vals : SegmentAppend(k, v)
    \/ \E k \in SegKeys : SegmentAppendTombstone(k)

SpecSegment == Init /\ [][NextSegment]_vars

(***************************************************************************)
(* SpecIndex: the operations of an Index (index.rs:13-66) on the index of  *)
(* the store, called with entries of any content.                          *)
(***************************************************************************)
\* Entries (segment_id, offset, value_length) given to Index::insert.
Entries == {<<s, o, l>> : s \in {0, 1}, o \in {0, 21}, l \in {0, 1}}

IndexInsertOp(key, e) ==
    /\ index' = IndexInsert(index, key, e[1], e[2], e[3])
    /\ res' = [op |-> "index_insert", key |-> key, value |-> NoValue,
               out |-> [tag |-> "unit", entry |-> e]]
    /\ UNCHANGED <<disk, tmp, running, segments, active_id, nwrites,
                   ncompacts, nopens, storage_lock, handlers, appended, scan>>

IndexRemoveOp(key) ==
    /\ index' = IndexRemove(index, key)
    /\ res' = [op |-> "index_remove", key |-> key, value |-> NoValue,
               out |-> IndexGet(index, key)]
    /\ UNCHANGED <<disk, tmp, running, segments, active_id, nwrites,
                   ncompacts, nopens, storage_lock, handlers, appended, scan>>

IndexClearOp ==
    /\ index' = IndexClear(index)
    /\ res' = [op |-> "index_clear", key |-> NoKey, value |-> NoValue,
               out |-> [tag |-> "unit"]]
    /\ UNCHANGED <<disk, tmp, running, segments, active_id, nwrites,
                   ncompacts, nopens, storage_lock, handlers, appended, scan>>

NextIndex ==
    \/ \E k \in Keys, e \in Entries : IndexInsertOp(k, e)
    \/ \E k \in Keys : IndexRemoveOp(k)
    \/ IndexClearOp

SpecIndex == Init /\ [][NextIndex]_vars

(***************************************************************************)
(* SpecRebuild: the while loop of rebuild_index (engine.rs:148-176) on one *)
(* segment file of any content, one turn of the loop per step.             *)
(***************************************************************************)
\* Pieces of segment content: a Put, a Tombstone, a Put with an empty key
\* and an empty value (20 bytes), a header of 0xFF bytes (key_len u64::MAX),
\* the first four bytes of a record, and a Put whose key byte has changed.
GarbageChunks ==
    {PutBytes(<<97>>, << >>),
     TombstoneBytes(<<97>>),
     PutBytes(<< >>, << >>),
     U64_MAX_BYTES \o U64_MAX_BYTES \o <<255, 255, 255, 255>>,
     <<1, 0, 0, 0>>,
     [PutBytes(<<97>>, << >>) EXCEPT ![HEADER_LEN + 1] = 98]}

RECURSIVE Garbage(_)
Garbage(n) ==
    IF n = 0 THEN {<< >>}
    ELSE Garbage(n - 1)
         \cup {g \o c : g \in Garbage(n - 1), c \in GarbageChunks}

\* The store of open_with_config when rebuild_index enters the loop of the
\* only segment, whose file holds some garbage.
InitRebuild ==
    /\ \E data \in Garbage(MaxChunks) :
          /\ disk = (0 :> data)
          /\ segments = (0 :> SegmentOpenHandle((0 :> data), 0))
    /\ index = IndexNew
    /\ active_id = 0
    /\ tmp = NoTmp
    /\ running = FALSE
    /\ res = [op |-> "open", key |-> NoKey, value |-> NoValue,
              out |-> [tag |-> "opening"]]
    /\ nwrites = 0
    /\ ncompacts = 0
    /\ nopens = 0
    /\ storage_lock = NoHolder
    /\ handlers = [c \in Clients |-> Idle]
    /\ appended = << >>
    /\ scan = [pc |-> "loop", pos |-> 0]

\* segment.rs:109, 114: a key_len above isize::MAX (the top bit of its last
\* byte set), for which vec![0u8; key_len as usize] panics with a capacity
\* overflow whatever memory there is.
CapacityOverflow(data, pos) ==
    /\ pos + HEADER_LEN <= Len(data)
    /\ data[pos + 8] >= 128

\* engine.rs:149-176: one evaluation of the while condition and, when it is
\* true, one turn of the loop.  When the loop is left, rebuild_index and
\* open return Ok.
RebuildTurn ==
    /\ scan.pc = "loop"
    /\ IF scan.pos >= segments[0].len
       THEN /\ scan' = [pc |-> "done", pos |-> scan.pos]
            /\ index' = index
       ELSE \E r \in {ReadRecordAt(disk[0], scan.pos)} :
               IF r.tag = "some"
               THEN /\ index' = IF r.tomb THEN IndexRemove(index, r.key)
                                 ELSE IndexInsert(index, r.key, 0, scan.pos,
                                                  Len(r.value))
                    /\ scan' = [pc |-> "loop",
                                pos |-> scan.pos
                                   + RebuildRecordSize(r.key, r.tomb, r.value)]
               ELSE /\ ~CapacityOverflow(disk[0], scan.pos)
                    /\ scan' = [pc |-> "done", pos |-> scan.pos]
                    /\ index' = index
    /\ running' = (scan'.pc = "done")
    /\ res' = [op |-> "open", key |-> NoKey, value |-> NoValue,
               out |-> IF scan'.pc = "done" THEN Ok ELSE [tag |-> "opening"]]
    /\ UNCHANGED <<disk, tmp, segments, active_id, nwrites, ncompacts, nopens,
                   storage_lock, handlers, appended>>

\* segment.rs:114, 131: vec![0u8; len] with a length of 2^31 or more read
\* from the header.  Above isize::MAX it panics (CapacityOverflow, and
\* RebuildTurn cannot be taken); below, the allocation may fail and abort
\* the process, or succeed and let read_exact fail.  open does not return.
RebuildAborts ==
    /\ scan.pc = "loop"
    /\ scan.pos < segments[0].len
    /\ ReadRecordAt(disk[0], scan.pos).tag = "err"
    /\ ReadRecordAt(disk[0], scan.pos).alloc
    /\ scan' = [pc |-> "abort", pos |-> scan.pos]
    /\ res' = [op |-> "open", key |-> NoKey, value |-> NoValue,
               out |-> [tag |-> "abort"]]
    /\ UNCHANGED <<disk, tmp, running, segments, index, active_id, nwrites,
                   ncompacts, nopens, storage_lock, handlers, appended>>

NextRebuild == RebuildTurn \/ RebuildAborts

SpecRebuild == InitRebuild /\ [][NextRebuild]_vars /\ WF_vars(NextRebuild)

(***************************************************************************)
(* What a client observes.                                                 *)
(***************************************************************************)
\* get(k) for every key of the model.
Observed == [k \in Keys |-> Get(k)]

\* list_keys and get(k) of the store that open returns on the directory
\* (segment files d, temp dir t).
OpenedKeys(d, t) == DOMAIN OpenStore(d, t).index

OpenedObserved(d, t) ==
    LET st == OpenStore(d, t)
    IN  [k \in Keys |-> GetIn(st.disk, st.segments, st.index, k)]

Some(v) == [tag |-> "value", value |-> v]
None == [tag |-> "none"]

\* A step of one store value: an operation of the running store that
\* returned, other than the drop-and-open.
SameStoreStep ==
    /\ running /\ running'
    /\ res'.op \in {"set", "delete", "get", "compact"}
    /\ res'.out.tag # "err"

(***************************************************************************)
(* C1  Read-your-writes: a set(k, v) that returns Ok makes get(k) return   *)
(* Some(v), and no later operation of the same store other than a          *)
(* set(k, _) or a delete(k) (a set or delete of another key with or        *)
(* without rotation, a get, a compact) changes the value get(k) returns.   *)
(***************************************************************************)
C1_ReadYourWrites ==
    [][ /\ (res'.op = "set" /\ res'.out = Ok)
            => GetIn(disk', segments', index', res'.key) = Some(res'.value)
        /\ \A k \in Keys :
            (/\ SameStoreStep
             /\ ~(res'.op \in {"set", "delete"} /\ res'.key = k)
             /\ Get(k).tag = "value")
            => GetIn(disk', segments', index', k) = Get(k)
      ]_vars

\* get returns a value whose record lies in a segment that is no longer the
\* active one, in a store that was never opened again nor compacted.
C1_Witness ==
    /\ running
    /\ nopens = 0 /\ ncompacts = 0
    /\ res.op = "get" /\ res.out.tag = "value"
    /\ index[res.key][1] < active_id

(***************************************************************************)
(* C2  Tombstone hides: a delete(k) that returns Ok makes get(k) return    *)
(* Ok(None), wherever the earlier Put records of k lie, and get(k) stays   *)
(* Ok(None) under every later operation of the same store other than a     *)
(* set(k, _).                                                              *)
(***************************************************************************)
C2_TombstoneHides ==
    [][ /\ (res'.op = "delete" /\ res'.out = Ok)
            => GetIn(disk', segments', index', res'.key) = None
        /\ \A k \in Keys :
            (/\ SameStoreStep
             /\ ~(res'.op = "set" /\ res'.key = k)
             /\ Get(k) = None)
            => GetIn(disk', segments', index', k) = None
      ]_vars

\* A delete has just returned for a key that has a Put record at the start
\* of segment 0 while the Tombstone went to a later segment.
C2_Witness ==
    /\ running
    /\ nopens = 0 /\ ncompacts = 0
    /\ res.op = "delete"
    /\ active_id >= 1
    /\ ReadRecordAt(disk[0], 0).tag = "some"
    /\ ReadRecordAt(disk[0], 0).key = res.key
    /\ ~ReadRecordAt(disk[0], 0).tomb
    /\ ReadRecordAt(disk[active_id], segments[active_id].len - HEADER_LEN - Len(res.key))
         = [tag |-> "some", key |-> res.key, tomb |-> TRUE, value |-> << >>]

(***************************************************************************)
(* C3  Durability across reopen: after set and delete calls that all       *)
(* returned Ok on a fresh store (no compaction, no earlier reopen),        *)
(* dropping the store and opening the directory again gives the same       *)
(* list_keys and the same get(k) for every key.                            *)
(***************************************************************************)
C3_DurableAcrossReopen ==
    [][ (res'.op = "reopen" /\ nopens = 0 /\ ncompacts = 0)
            => /\ DOMAIN index' = ListKeys
               /\ \A k \in Keys : GetIn(disk', segments', index', k) = Get(k)
      ]_vars

(***************************************************************************)
(* C4  Compaction preserves the observable state: a compact() that returns *)
(* Ok leaves list_keys the same set and get(k) the same for every key.     *)
(***************************************************************************)
C4_CompactPreservesObserved ==
    [][ (res'.op = "compact" /\ res'.out.tag = "ok")
            => /\ DOMAIN index' = ListKeys
               /\ \A k \in Keys : GetIn(disk', segments', index', k) = Get(k)
      ]_vars

\* compact() has returned on a store of three records, spread over more than
\* one segment before it, of which one key is live and one is deleted or
\* never written.
C4_Witness ==
    /\ running
    /\ res.op = "compact" /\ res.out.tag = "ok"
    /\ nopens = 0 /\ nwrites >= 3
    /\ Cardinality(ListKeys) = 1
    /\ \E k \in Keys : Get(k).tag = "value"

(***************************************************************************)
(* C10  delete(k) of a key that is not in the index returns Ok and changes *)
(* neither the files (no record, no rotation), the segment map, the index  *)
(* nor the active id; after any delete(k) the key is not in the index, so  *)
(* a repeated delete(k) is that no-op.                                     *)
(***************************************************************************)
C10_DeleteAbsentIsNoop ==
    [][ /\ (res'.op = "delete" /\ res'.key \notin DOMAIN index)
            => /\ res'.out = Ok
               /\ UNCHANGED <<disk, tmp, segments, index, active_id>>
        /\ res'.op = "delete" => res'.key \notin DOMAIN index'
      ]_vars

\* delete("a") has returned on a store whose only record is the Put of "b".
C10_Witness ==
    /\ running
    /\ res.op = "delete" /\ res.key = <<97>> /\ res.out = Ok
    /\ disk = (0 :> PutBytes(<<98>>, <<120>>))
    /\ DOMAIN index = {<<98>>}

(***************************************************************************)
(* C5  Prefix crash tolerance: when the process is killed inside a set or  *)
(* a delete of a fresh store with only a strict prefix of the record's     *)
(* bytes in the active segment (inside the header, inside the key, inside  *)
(* the value, or nothing), the store that open returns on the directory    *)
(* has every key in the state it had before that write: the earlier        *)
(* records are readable with their values, and the key of the cut record   *)
(* is absent or has its previous value.                                    *)
(***************************************************************************)
C5_PrefixCrashTolerance ==
    [][ (res'.op = "kill_write" /\ nopens = 0 /\ ncompacts = 0)
            => /\ OpenedKeys(disk', tmp') = ListKeys
               /\ OpenedObserved(disk', tmp') = Observed
      ]_vars

(***************************************************************************)
(* C6  Crash inside the swap of a compaction: when the process is killed   *)
(* after the removal of the first old segment file and before the move of  *)
(* the last new one, the store that open returns on the directory has the  *)
(* list_keys and the get(k) of the store before the compaction.            *)
(***************************************************************************)
C6_SwapCrashPreservesState ==
    [][ (res'.op = "kill_compact_swap"
         /\ res'.out.moved # res'.out.new)
            => /\ OpenedKeys(disk', tmp') = ListKeys
               /\ OpenedObserved(disk', tmp') = Observed
      ]_vars

(***************************************************************************)
(* C7  Crash inside a compaction before the swap: the kill leaves every    *)
(* segment file of the store directory as it was; the next open, with the  *)
(* .compacting directory present, returns the store it returns without     *)
(* that directory and leaves the directory in place; and a compact() that  *)
(* finds a stale .compacting directory removes it, the segment files after *)
(* it holding as many bytes as one Put record per live key takes.          *)
(***************************************************************************)
RECURSIVE LiveBytes(_)
LiveBytes(ks) ==
    IF ks = {} THEN 0
    ELSE LET k == CHOOSE x \in ks : TRUE
         IN  (IF Get(k).tag = "value"
              THEN HEADER_LEN + Len(k) + Len(Get(k).value) ELSE 0)
             + LiveBytes(ks \ {k})

RECURSIVE FileBytes(_, _)
FileBytes(d, ids) ==
    IF ids = {} THEN 0
    ELSE LET i == CHOOSE x \in ids : TRUE
         IN  Len(d[i]) + FileBytes(d, ids \ {i})

C7_CrashBeforeSwap ==
    [][ /\ res'.op = "kill_compact_fill" => disk' = disk
        /\ (res'.op = "open" /\ res'.out = Ok /\ tmp.exists)
            => /\ tmp' = tmp
               /\ disk' = OpenStore(disk, NoTmp).disk
               /\ segments' = OpenStore(disk, NoTmp).segments
               /\ index' = OpenStore(disk, NoTmp).index
               /\ active_id' = OpenStore(disk, NoTmp).active_id
        /\ (res'.op = "compact" /\ res'.out.tag = "ok" /\ tmp.exists)
            => /\ tmp' = NoTmp
               /\ FileBytes(disk', DOMAIN disk') = LiveBytes(ListKeys)
      ]_vars

\* compact() has returned on a store opened after a kill inside an earlier
\* compaction, whose .compacting directory was still there.
C7_Witness ==
    /\ running
    /\ res.op = "compact" /\ res.out.tag = "ok" /\ res.out.stale
    /\ nopens = 1
    /\ ListKeys # {}
    /\ tmp = NoTmp

(***************************************************************************)
(* C8  Compaction followed by reopen: after a compact() that returned Ok,  *)
(* dropping the store and opening the directory gives the list_keys and    *)
(* the get(k) of the store before the compaction.                          *)
(***************************************************************************)
C8_CompactThenReopen ==
    [][ (res'.op = "compact" /\ res'.out.tag = "ok")
            => /\ OpenedKeys(disk', tmp') = ListKeys
               /\ OpenedObserved(disk', tmp') = Observed
      ]_vars

(***************************************************************************)
(* C9  A compact() that returns Err(CompactionFailed), at whichever step,  *)
(* leaves list_keys and every get(k) of the running store unchanged, and   *)
(* leaves unchanged what a reopen of the directory returns.                *)
(***************************************************************************)
C9_FailedCompactKeepsState ==
    [][ (res'.op = "compact" /\ res'.out.tag = "err")
            => /\ DOMAIN index' = ListKeys
               /\ \A k \in Keys : GetIn(disk', segments', index', k) = Get(k)
               /\ OpenedKeys(disk', tmp') = OpenedKeys(disk, tmp)
               /\ OpenedObserved(disk', tmp') = OpenedObserved(disk, tmp)
      ]_vars

(***************************************************************************)
(* C11  Corruption is detected, never returned as data: once a byte of the *)
(* key or value of a stored record has changed while its header is kept,   *)
(* reading that record fails with ChecksumMismatch, and after a reopen     *)
(* get(k) for the record's key returns the ChecksumMismatch error or       *)
(* not-found.                                                              *)
(***************************************************************************)
ChecksumMismatch == [tag |-> "err", kind |-> "checksum"]

C11_CorruptionDetected ==
    [][ res'.op = "corrupt"
            => /\ ReadRecordAt(disk'[res'.out.id], res'.out.offset)
                    = [tag |-> "err", kind |-> "checksum", alloc |-> FALSE]
               /\ OpenedObserved(disk', tmp')[res'.key]
                    \in {ChecksumMismatch, None}
      ]_vars

(***************************************************************************)
(* C12  get(k) cross-checks the decoded record: when the record at the     *)
(* location the index gives for k decodes with a valid checksum but holds  *)
(* another key, get(k) returns a CorruptedData error and not that record's *)
(* value.                                                                  *)
(***************************************************************************)
\* What read_record_at returns at the location the index gives for k.
IndexedRecord(k) ==
    ReadRecordAt(Content(disk, segments, index[k][1]), index[k][2])

CorruptedData == [tag |-> "err", kind |-> "corrupted_data"]

C12_GetCrossChecksKey ==
    \A k \in Keys :
        (/\ running
         /\ k \in DOMAIN index
         /\ index[k][1] \in DOMAIN segments
         /\ IndexedRecord(k).tag = "some"
         /\ IndexedRecord(k).key # k)
        => Get(k) = CorruptedData

(***************************************************************************)
(* C13  An empty value is live: once set(k, empty) has returned Ok, get(k) *)
(* returns Some(empty) and k is in list_keys, in the running store, in the *)
(* store that open returns on the directory, and after a compact.          *)
(***************************************************************************)
C13_EmptyValueIsLive ==
    [][ /\ (res'.op = "set" /\ res'.out = Ok /\ res'.value = << >>)
            => /\ GetIn(disk', segments', index', res'.key) = Some(<< >>)
               /\ res'.key \in DOMAIN index'
               /\ OpenedObserved(disk', tmp')[res'.key] = Some(<< >>)
               /\ res'.key \in OpenedKeys(disk', tmp')
        /\ \A k \in Keys :
            (/\ running /\ res'.op = "compact" /\ res'.out.tag = "ok"
             /\ Get(k) = Some(<< >>) /\ k \in DOMAIN index)
            => /\ GetIn(disk', segments', index', k) = Some(<< >>)
               /\ k \in DOMAIN index'
      ]_vars

\* The part of C13 about the running store and the compaction.
C13_RunningPart ==
    [][ /\ (res'.op = "set" /\ res'.out = Ok /\ res'.value = << >>)
            => /\ GetIn(disk', segments', index', res'.key) = Some(<< >>)
               /\ res'.key \in DOMAIN index'
        /\ \A k \in Keys :
            (/\ running /\ res'.op = "compact" /\ res'.out.tag = "ok"
             /\ Get(k) = Some(<< >>) /\ k \in DOMAIN index)
            => /\ GetIn(disk', segments', index', k) = Some(<< >>)
               /\ k \in DOMAIN index'
      ]_vars

(***************************************************************************)
(* C14  Compaction reclaims space: after a compact() that returned Ok,     *)
(* stats().total_bytes is never greater than before it, and it is strictly *)
(* smaller whenever the segments held at least one superseded Put or one   *)
(* Tombstone.                                                              *)
(***************************************************************************)
\* The segments hold a Tombstone, or a Put that is not the record the index
\* gives for its key.
HoldsDeadRecord ==
    \E id \in DOMAIN segments :
        \E off \in RecordStarts(Content(disk, segments, id), 0) :
            \E r \in {ReadRecordAt(Content(disk, segments, id), off)} :
                /\ r.tag = "some"
                /\ \/ r.tomb
                   \/ r.key \notin DOMAIN index
                   \/ <<index[r.key][1], index[r.key][2]>> # <<id, off>>

C14_CompactionReclaimsSpace ==
    [][ (running /\ res'.op = "compact" /\ res'.out.tag = "ok")
            => /\ StatsIn(segments', index', active_id').total_bytes
                    <= Stats.total_bytes
               /\ HoldsDeadRecord
                    => StatsIn(segments', index', active_id').total_bytes
                         < Stats.total_bytes
      ]_vars

\* compact() has returned after three writes of which one key is left, in a
\* store never opened again: the segments have the bytes of one record.
C14_Witness ==
    /\ running
    /\ res.op = "compact" /\ res.out.tag = "ok"
    /\ nwrites = MaxWrites /\ nopens = 0
    /\ Cardinality(DOMAIN index) = 1
    /\ Stats.total_bytes \in {HEADER_LEN + 1, HEADER_LEN + 2}

(***************************************************************************)
(* C15  After a compact() that returned Ok the segment files hold exactly  *)
(* one Put record for each live key, with the value get returned for it    *)
(* before the compaction, no Tombstone, and no record of a key that is not *)
(* live.                                                                   *)
(***************************************************************************)
\* The places <<segment id, offset>> of the records in the segment files d.
RecordsOf(d) ==
    UNION {{<<id, off>> : off \in RecordStarts(d[id], 0)} : id \in DOMAIN d}

C15_CompactedContent ==
    [][ (running /\ res'.op = "compact" /\ res'.out.tag = "ok")
            => /\ \A p \in RecordsOf(disk') :
                    \E r \in {ReadRecordAt(disk'[p[1]], p[2])} :
                        /\ r.tag = "some"
                        /\ ~r.tomb
                        /\ Get(r.key) = Some(r.value)
               /\ \A k \in Keys :
                    Get(k).tag = "value"
                    => Cardinality({p \in RecordsOf(disk') :
                          ReadRecordAt(disk'[p[1]], p[2]).key = k}) = 1
               /\ FileBytes(disk', DOMAIN disk') = LiveBytes(ListKeys)
      ]_vars

\* compact() has returned with two live keys after three writes: the
\* segment files hold two records.
C15_Witness ==
    /\ running
    /\ res.op = "compact" /\ res.out.tag = "ok"
    /\ nwrites = MaxWrites
    /\ Cardinality(DOMAIN index) = 2
    /\ Cardinality(RecordsOf(disk)) = 2

(***************************************************************************)
(* C16  Compaction is idempotent: a compact() called right after a         *)
(* compact() that returned Ok leaves the same records in the same order in *)
(* the segment files (segment ids apart) and the same observable state as  *)
(* the first one left.                                                     *)
(***************************************************************************)
\* The bytes of the segment files d, in ascending id order.
RECURSIVE ConcatFiles(_, _)
ConcatFiles(d, ids) ==
    IF ids = {} THEN << >>
    ELSE d[SetMin(ids)] \o ConcatFiles(d, ids \ {SetMin(ids)})

\* The segment files a compact() leaves when called in this state and
\* index.keys() enumerates in that order, and what get returns after it.
CompactedFiles(order) ==
    SwapFiles(CompactNew(order, Len(order)), OldIds,
              NewIds(CompactNew(order, Len(order))))

CompactedObserved(order) ==
    [k \in Keys |->
        GetIn(CompactNew(order, Len(order)).files,
              [id \in NewIds(CompactNew(order, Len(order))) |->
                  SegmentOpenHandle(CompactNew(order, Len(order)).files, id)],
              CompactNew(order, Len(order)).index, k)]

C16_CompactionIdempotent ==
    (running /\ res.op = "compact" /\ res.out.tag = "ok")
    => \A o \in KeyOrders :
          /\ ConcatFiles(CompactedFiles(o), DOMAIN CompactedFiles(o))
                = ConcatFiles(disk, DOMAIN disk)
          /\ CompactedObserved(o) = Observed

\* The part of C16 about the observable state.
C16_ObservedPart ==
    (running /\ res.op = "compact" /\ res.out.tag = "ok")
    => \A o \in KeyOrders : CompactedObserved(o) = Observed

(***************************************************************************)
(* C17  list_keys() returns, without duplicates, exactly the keys for      *)
(* which get returns a value, after any sequence of set, delete and        *)
(* compact.                                                                *)
(***************************************************************************)
\* The places of the records of key k in the segment files, and whether the
\* last of them, in the order of writing, is a Put.
PlacesOfKey(k) ==
    {p \in RecordsOf(disk) :
        /\ ReadRecordAt(disk[p[1]], p[2]).tag = "some"
        /\ ReadRecordAt(disk[p[1]], p[2]).key = k}

LastWriteIsSet(k) ==
    \E p \in PlacesOfKey(k) :
        /\ \A q \in PlacesOfKey(k) :
              q[1] < p[1] \/ (q[1] = p[1] /\ q[2] <= p[2])
        /\ ~ReadRecordAt(disk[p[1]], p[2]).tomb

C17_ListKeysAreLive ==
    running
    => \A o \in ListKeysVecs :
          /\ \A i, j \in DOMAIN o : o[i] = o[j] => i = j
          /\ \A k \in Keys :
                (\E i \in DOMAIN o : o[i] = k) <=> Get(k).tag = "value"
          /\ nopens = 0
                => \A k \in Keys :
                      (\E i \in DOMAIN o : o[i] = k) <=> LastWriteIsSet(k)

\* A delete has returned after a compaction, one key is left, and the
\* Tombstone is in the segments.
C17_Witness ==
    /\ running
    /\ res.op = "delete" /\ res.out = Ok
    /\ ncompacts = 1
    /\ Cardinality(ListKeys) = 1
    /\ res.key \notin ListKeys
    /\ HoldsDeadRecord

(***************************************************************************)
(* C18  In every reachable state stats() reports num_keys = the number of  *)
(* distinct live keys (a set of a key that is live does not change it),    *)
(* num_segments = the number of segments of the segment map, total_bytes = *)
(* the sum of the segments' cached lengths, active_segment_id = the active *)
(* id, and oldest_segment_id = the smallest segment id.                    *)
(***************************************************************************)
\* What stats() returns agrees with the store (files d, fields segs, idx, aid).
StatsAgree(st, d, segs, idx, aid) ==
    /\ st.num_keys
         = Cardinality({k \in Keys : GetIn(d, segs, idx, k).tag = "value"})
    /\ st.num_segments = Cardinality(DOMAIN segs)
    /\ \E lens \in {[id \in DOMAIN segs |-> segs[id].len]} :
          st.total_bytes = FileBytes([id \in DOMAIN lens |->
                                        [i \in 1..lens[id] |-> 0]],
                                     DOMAIN lens)
    /\ st.active_segment_id = aid
    /\ st.oldest_segment_id \in DOMAIN segs
    /\ \A id \in DOMAIN segs : st.oldest_segment_id <= id

C18_StatsReport ==
    [][ /\ running => StatsAgree(Stats, disk, segments, index, active_id)
        /\ running' => StatsAgree(StatsIn(segments', index', active_id'),
                                  disk', segments', index', active_id')
        /\ (/\ running /\ res'.op = "set" /\ res'.out = Ok
            /\ Get(res'.key).tag = "value")
            => StatsIn(segments', index', active_id').num_keys
                 = Stats.num_keys
      ]_vars

\* A set of a live key has returned, the store has several segments and
\* holds a superseded record.
C18_Witness ==
    /\ running
    /\ res.op = "set" /\ res.out = Ok
    /\ nwrites = MaxWrites
    /\ Stats.num_keys = 1
    /\ Stats.num_segments >= 2
    /\ Stats.total_bytes > 2 * HEADER_LEN
    /\ HoldsDeadRecord

(***************************************************************************)
(* C19  After any sequence of set, get, delete and compact calls, calls    *)
(* that returned an I/O error included, the active id is a key of the      *)
(* segment map and the segment id of every index entry is a key of the     *)
(* segment map, and no call returns ActiveSegmentNotFound or               *)
(* SegmentNotFound.                                                        *)
(***************************************************************************)
SegmentNotFound == [tag |-> "err", kind |-> "segment_not_found"]

C19_SegmentMapInvariant ==
    running
    => /\ active_id \in DOMAIN segments
       /\ \A k \in DOMAIN index : index[k][1] \in DOMAIN segments
       /\ res.out \notin {ActiveSegmentNotFound, SegmentNotFound}

(***************************************************************************)
(* C20  The status of the HTTP responses: a POST /blobs/:key that stores   *)
(* answers 201, and a GET of the key then answers 200 with the stored      *)
(* bytes; a GET of an absent or deleted key answers 404; a DELETE answers  *)
(* 204 whether or not the key existed; and a request whose engine call     *)
(* returns an error (I/O, checksum) answers 500.                           *)
(***************************************************************************)
C20_HttpStatus ==
    [][ /\ (res'.op = "set" /\ res'.out = Ok)
            => /\ Response'.status = 201
               /\ GetBlobResponse(GetIn(disk', segments', index', res'.key))
                    = [status |-> 200, body |-> res'.value]
        /\ (res'.op = "delete" /\ res'.out = Ok)
            => /\ Response'.status = 204
               /\ GetBlobResponse(GetIn(disk', segments', index', res'.key))
                    .status = 404
        /\ (res'.op = "get" /\ res'.out.tag = "value")
            => Response' = [status |-> 200, body |-> res'.out.value]
        /\ (res'.op = "get" /\ res'.key \notin DOMAIN index)
            => Response'.status = 404
        /\ (res'.op \in {"set", "get", "delete"} /\ res'.out.tag = "err")
            => Response'.status = 500
      ]_vars

\* A GET has been answered 500 because the checksum of the record failed.
C20_Witness ==
    /\ running
    /\ res.op = "get" /\ res.out = ChecksumMismatch
    /\ Response.status = 500

(***************************************************************************)
(* C21  Under any interleaving of concurrent requests a handler holds the  *)
(* storage mutex from before its engine call until it returns, so at most  *)
(* one handler is inside its call and every engine operation is a step of  *)
(* the holder; the calls take effect one after the other in the order of   *)
(* the records in the segments, and a GET whose call comes after the call  *)
(* of a PUT or DELETE of the same key returns that effect.                 *)
(***************************************************************************)
\* What the last record written for key k says get(k) is.
LastWritten(k) ==
    IF LastWriteIsSet(k)
    THEN Some(ReadRecordAt(
                 disk[(CHOOSE p \in PlacesOfKey(k) : \A q \in PlacesOfKey(k) :
                          q[1] < p[1] \/ (q[1] = p[1] /\ q[2] <= p[2]))[1]],
                 (CHOOSE p \in PlacesOfKey(k) : \A q \in PlacesOfKey(k) :
                          q[1] < p[1] \/ (q[1] = p[1] /\ q[2] <= p[2]))[2]
               ).value)
    ELSE None

C21_HandlersSerialized ==
    [][ /\ \A c \in Clients :
              handlers'[c].pc \in {"locked", "called"} <=> storage_lock' = c
        /\ <<disk, segments, index, active_id, res>>'
              # <<disk, segments, index, active_id, res>>
            => \E c \in Clients :
                  /\ storage_lock = c /\ storage_lock' = c
                  /\ handlers[c].pc = "locked" /\ handlers'[c].pc = "called"
                  /\ res'.key = handlers[c].key
                  /\ \A d \in Clients \ {c} : handlers'[d] = handlers[d]
        /\ (res' # res /\ res'.op = "get") => res'.out = LastWritten(res'.key)
        /\ \A c \in Clients :
              (handlers[c].pc = "called" /\ handlers'[c].pc = "idle")
              => /\ res' = res
                 /\ Response'.status
                      \in {CREATED, OK, NOT_FOUND, NO_CONTENT,
                           INTERNAL_SERVER_ERROR}
      ]_vars

\* A GET is answered with the value of a PUT while the handler of the other
\* client waits for the Mutex with a request for the same key.
C21_Witness ==
    \E c, d \in Clients :
        /\ c # d
        /\ handlers[c].pc = "called" /\ handlers[c].op = "get"
        /\ res.op = "get" /\ res.out.tag = "value"
        /\ handlers[d].pc = "waiting" /\ handlers[d].op = "delete"
        /\ handlers[d].key = handlers[c].key
        /\ nwrites >= 2

(***************************************************************************)
(* C22  I1 holds in every reachable state (after open, set, delete,        *)
(* rotation, compact): every index entry (segment_id, offset,              *)
(* value_length) of a key k addresses the first byte of a Put record, in a *)
(* segment of the segment map, whose decoded key is k, whose checksum      *)
(* validates and whose value has value_length bytes.                       *)
(***************************************************************************)
C22_IndexPointsAtPut ==
    running
    => \A k \in DOMAIN index :
          /\ index[k][1] \in DOMAIN segments
          /\ IndexedRecord(k).tag = "some"
          /\ ~IndexedRecord(k).tomb
          /\ IndexedRecord(k).key = k
          /\ Len(IndexedRecord(k).value) = index[k][3]

\* Two keys are indexed in one segment, the store having rotated before.
C22_Witness ==
    /\ running
    /\ res.op = "set" /\ res.out = Ok
    /\ active_id > 0
    /\ \E j, k \in DOMAIN index :
          /\ j # k
          /\ index[j][1] = active_id /\ index[k][1] = active_id
          /\ index[k][2] > 0 /\ index[k][3] = 1

(***************************************************************************)
(* C23  I2 holds in every reachable state, in particular right after open  *)
(* on a directory of several segments: for every key that has a record in  *)
(* a segment, the records being ordered by segment id and then by offset,  *)
(* the index entry addresses the last Put of the key, and the key is not   *)
(* in the index when its last record is a Tombstone.                       *)
(***************************************************************************)
\* The place of the last record of key k, which has one.
LastPlace(k) ==
    CHOOSE p \in PlacesOfKey(k) :
        \A q \in PlacesOfKey(k) : q[1] < p[1] \/ (q[1] = p[1] /\ q[2] <= p[2])

C23_IndexIsLatestWins ==
    running
    => \A k \in Keys :
          PlacesOfKey(k) # {}
          => IF LastWriteIsSet(k)
             THEN /\ k \in DOMAIN index
                  /\ <<index[k][1], index[k][2]>> = LastPlace(k)
             ELSE k \notin DOMAIN index

(***************************************************************************)
(* C24  The index rebuild visits every record of a segment once, at its    *)
(* start: after the record decoded at pos the next position is pos plus    *)
(* that record's size as Segment::record_size gives it (20 + key length +  *)
(* value length, 0 for the value of a Tombstone).                          *)
(***************************************************************************)
\* The positions at which the while loop of rebuild_index decodes a record,
\* scanning data from pos.
RECURSIVE RebuildVisits(_, _)
RebuildVisits(data, pos) ==
    IF pos >= Len(data) \/ ReadRecordAt(data, pos).tag # "some" THEN {}
    ELSE {pos}
         \cup RebuildVisits(data,
                  pos + RebuildRecordSize(ReadRecordAt(data, pos).key,
                                          ReadRecordAt(data, pos).tomb,
                                          ReadRecordAt(data, pos).value))

C24_RebuildStepsByRecordSize ==
    running
    => \A id \in DOMAIN disk :
          /\ \A pos \in RecordStarts(disk[id], 0) :
                ReadRecordAt(disk[id], pos).tag = "some"
                => RebuildRecordSize(ReadRecordAt(disk[id], pos).key,
                                     ReadRecordAt(disk[id], pos).tomb,
                                     ReadRecordAt(disk[id], pos).value)
                     = RecordLenAt(disk[id], pos)
          /\ RebuildVisits(disk[id], 0) = RecordStarts(disk[id], 0)

(***************************************************************************)
(* C25  I3: a set, or a delete of a present key, that returns Ok appends   *)
(* exactly one record to the active segment and changes no byte and no     *)
(* length of any other segment; get, list_keys and stats change neither    *)
(* the index, the segment contents, the segment lengths nor the active id. *)
(***************************************************************************)
\* The call of client c's handler is this step.
CallStep(c) == handlers[c].pc = "locked" /\ handlers'[c].pc = "called"

\* The step appends bytes to the segment that is active after it, and
\* leaves every other segment as it was.
AppendsOnly(bytes) ==
    /\ DOMAIN disk' = DOMAIN disk \cup {active_id'}
    /\ DOMAIN segments' = DOMAIN segments \cup {active_id'}
    /\ disk'[active_id']
         = (IF active_id' \in DOMAIN disk THEN disk[active_id'] ELSE << >>)
           \o bytes
    /\ segments'[active_id'].len = Len(disk'[active_id'])
    /\ \A id \in DOMAIN disk \ {active_id'} :
          disk'[id] = disk[id] /\ segments'[id] = segments[id]

C25_WritesAppendToActiveOnly ==
    [][ \A c \in Clients :
          /\ (CallStep(c) /\ handlers[c].op = "put" /\ res'.out = Ok)
              => AppendsOnly(PutBytes(handlers[c].key, handlers[c].value))
          /\ (/\ CallStep(c) /\ handlers[c].op = "delete" /\ res'.out = Ok
              /\ handlers[c].key \in DOMAIN index)
              => AppendsOnly(TombstoneBytes(handlers[c].key))
          /\ (CallStep(c) /\ handlers[c].op \in {"get", "list", "health"})
              => UNCHANGED <<index, disk, segments, active_id>>
      ]_vars

\* A delete of a present key has returned in a store of several segments:
\* the index lost the key, the earlier segments are full.
C25_Witness ==
    \E c \in Clients :
        /\ handlers[c].pc = "called" /\ handlers[c].op = "delete"
        /\ res.op = "delete" /\ res.out = Ok
        /\ active_id >= 1
        /\ Len(disk[active_id]) = HEADER_LEN + 1
        /\ IsFull(segments[0].len)

(***************************************************************************)
(* C26  I4: in every reachable state the active id is the largest id of    *)
(* the segment map; open makes the highest id of the directory active (and *)
(* creates segment 0 in an empty directory); a rotation takes exactly      *)
(* active_id + 1, which is the id of no existing segment, and between      *)
(* compactions the ids only grow.                                          *)
(***************************************************************************)
C26_OrderedIds ==
    [][ /\ running => active_id = SetMax(DOMAIN segments)
        /\ running' => active_id' = SetMax(DOMAIN segments')
        /\ (res'.op \in {"open", "reopen"} /\ running')
            => /\ SegmentIds(disk, tmp) # {}
                    => active_id' = SetMax(SegmentIds(disk, tmp))
               /\ SegmentIds(disk, tmp) = {}
                    => active_id' = 0 /\ DOMAIN disk' = {0}
        /\ (running /\ res'.op \in {"set", "delete", "get"})
            => /\ DOMAIN segments \subseteq DOMAIN segments'
               /\ active_id' # active_id
                    => /\ active_id' = active_id + 1
                       /\ active_id' \notin DOMAIN segments
                       /\ active_id' \notin DOMAIN disk
                       /\ DOMAIN segments'
                            = DOMAIN segments \cup {active_id'}
      ]_vars

\* The store has been opened again on a directory of several segments.
C26_Witness ==
    /\ running
    /\ res.op = "reopen"
    /\ Cardinality(DOMAIN segments) >= 2
    /\ active_id = SetMax(DOMAIN disk)
    /\ active_id >= 1

(***************************************************************************)
(* C27  I5 and the advisory limit: no record, Put or Tombstone, is         *)
(* appended to a segment whose length before the append is at or above the *)
(* size limit, set and delete rotating to a new active segment first; a    *)
(* record that starts below the limit is written in full to the current    *)
(* segment even when it crosses the limit, and is read back unchanged;     *)
(* only the write after it rotates.                                        *)
(***************************************************************************)
\* The length, before the step, of the segment that is active after it.
LenBefore == IF active_id' \in DOMAIN disk THEN Len(disk[active_id']) ELSE 0

C27_AdvisoryLimit ==
    [][ /\ \A id \in DOMAIN disk' : \A off \in RecordStarts(disk'[id], 0) :
              off < SEGMENT_SIZE_LIMIT
        /\ (/\ running /\ res'.op \in {"set", "delete"} /\ res'.out = Ok
            /\ (res'.op = "delete" => res'.key \in DOMAIN index))
            => /\ LenBefore < SEGMENT_SIZE_LIMIT
               /\ Len(disk[active_id]) >= SEGMENT_SIZE_LIMIT
                    <=> active_id' = active_id + 1
               /\ Len(disk[active_id]) < SEGMENT_SIZE_LIMIT
                    <=> active_id' = active_id
               /\ Len(disk'[active_id'])
                    = LenBefore + HEADER_LEN + Len(res'.key)
                        + Len(res'.value)
               /\ res'.op = "set"
                    => /\ ReadRecordAt(disk'[active_id'], LenBefore)
                            = [tag |-> "some", key |-> res'.key,
                               tomb |-> FALSE, value |-> res'.value]
                       /\ GetIn(disk', segments', index', res'.key)
                            = Some(res'.value)
      ]_vars

\* A set has rotated after a segment that a record made longer than the
\* limit, and that record is still read.
C27_Witness ==
    /\ running
    /\ nopens = 0 /\ ncompacts = 0
    /\ res.op = "set" /\ res.out = Ok
    /\ active_id = 1
    /\ Len(disk[1]) = HEADER_LEN + 1 + Len(res.value)
    /\ Len(disk[0]) > SEGMENT_SIZE_LIMIT
    /\ \E k \in DOMAIN index :
          /\ index[k][1] = 0 /\ index[k][2] > 0
          /\ Get(k).tag = "value"

(***************************************************************************)
(* C28  Replay is a prefix scan of each segment: in the store that open    *)
(* returns, no index entry addresses a record of a segment at or after the *)
(* first record of that segment that is truncated, does not decode or      *)
(* fails its checksum, however well-formed the later record is; open       *)
(* returns a store all the same, and the scan goes on with the segments of *)
(* higher id.                                                              *)
(***************************************************************************)
\* The first record of segment id is a well-formed Put of key k.
StartsWithPut(d, id, k) ==
    /\ Len(d[id]) > 0
    /\ ReadRecordAt(d[id], 0).tag = "some"
    /\ ~ReadRecordAt(d[id], 0).tomb
    /\ ReadRecordAt(d[id], 0).key = k

C28_PrefixScan ==
    running
    => \A id \in DOMAIN disk : \A f \in RecordStarts(disk[id], 0) :
          ReadRecordAt(disk[id], f).tag # "some"
          => /\ \A k \in OpenedKeys(disk, tmp) :
                   ~(/\ OpenStore(disk, tmp).index[k][1] = id
                     /\ OpenStore(disk, tmp).index[k][2] >= f)
             /\ \A id2 \in DOMAIN disk : \A k \in Keys :
                   (/\ id2 > id /\ StartsWithPut(disk, id2, k)
                    /\ LastPlace(k) = <<id2, 0>>)
                   => /\ k \in OpenedKeys(disk, tmp)
                      /\ OpenStore(disk, tmp).index[k][1] = id2
                      /\ OpenStore(disk, tmp).index[k][2] = 0

\* The store has been opened on a directory whose segment 0 has a first
\* record that fails its checksum and a well-formed second record, and
\* whose segment 1 starts with a Put: that key is indexed in segment 1.
C28_Witness ==
    /\ running
    /\ res.op = "reopen"
    /\ 1 \in DOMAIN disk
    /\ ReadRecordAt(disk[0], 0).tag = "err"
    /\ Cardinality(RecordStarts(disk[0], 0)) = 2
    /\ \E k \in DOMAIN index : index[k][1] = 1 /\ StartsWithPut(disk, 1, k)
    /\ \A k \in DOMAIN index : index[k][1] # 0

\* The offset at which the whole records of a file end: what follows it, if
\* anything, is the truncated record of a killed write.
RECURSIVE EndOfRecords(_, _)
EndOfRecords(data, pos) ==
    IF pos + HEADER_LEN > Len(data) THEN pos
    ELSE IF pos + RecordLenAt(data, pos) > Len(data) THEN pos
    ELSE EndOfRecords(data, pos + RecordLenAt(data, pos))

TornTail(data) == EndOfRecords(data, 0) < Len(data)

\* What get(key) returns after the write that the last step made.
Written(r) == IF r.op = "set" THEN Some(r.value) ELSE None

(***************************************************************************)
(* C29  Writes made after recovering from a torn tail stay durable: when   *)
(* open ran on a directory whose active segment ends in a truncated        *)
(* record, a set or delete on the opened store that returns Ok is shown by *)
(* get after the store is closed and opened again.                         *)
(***************************************************************************)
C29_WritesAfterTornTailDurable ==
    [][(/\ running /\ res.op = "open"
        /\ active_id \in DOMAIN disk
        /\ TornTail(disk[active_id])
        /\ res'.op \in {"set", "delete"}
        /\ res'.out.tag = "ok")
       => OpenedObserved(disk', tmp')[res'.key] = Written(res')]_vars

\* What get returns, key by key, when the write of r took its full effect on
\* the observation obs, and when it took none.
FullEffect(obs, r) ==
    [obs EXCEPT ![r.key] = IF r.out.tomb THEN None ELSE Some(r.value)]

(***************************************************************************)
(* C30  Write atomicity under crash: a set or delete killed between its    *)
(* first byte and its fsync leaves, after the directory is opened again,   *)
(* either the full effect of the write or none: get of the written key     *)
(* returns its new or its old state, never a partly written value, and get *)
(* of every other key returns what it returned before the write.           *)
(***************************************************************************)
C30_WriteAtomicUnderCrash ==
    [][(res'.op = "kill_write" /\ res'.out.cut > 0)
       => OpenedObserved(disk', tmp') \in {Observed, FullEffect(Observed, res')}]_vars

\* The same with the state before the write taken as what an open of the
\* directory showed just before the write.
C30_RelativeToOpened ==
    [][(res'.op = "kill_write" /\ res'.out.cut > 0)
       => OpenedObserved(disk', tmp')
             \in {OpenedObserved(disk, tmp),
                  FullEffect(OpenedObserved(disk, tmp), res')}]_vars

(***************************************************************************)
(* C31  When the record of a live key cannot be read during compaction     *)
(* (checksum mismatch, I/O error, missing segment), compact() returns      *)
(* CompactionFailed and no key disappears; a compact() that returns Ok     *)
(* never reduces the set of keys of list_keys.                             *)
(***************************************************************************)
C31_CompactKeepsKeys ==
    [][(running /\ res'.op = "compact")
       => /\ res'.out.tag = "ok" => ListKeys \subseteq ListKeys'
          /\ (\E k \in ListKeys : Get(k).tag = "err")
                => /\ res'.out = CompactionFailed("read")
                   /\ ListKeys' = ListKeys]_vars

(***************************************************************************)
(* C32  Post-compaction layout: after a compact() that returns Ok the      *)
(* store directory holds exactly the new segment files, with ids 0..n, no  *)
(* old segment file and no .compacting directory; the segment map holds    *)
(* exactly those ids, the active id is n, and every new segment but the    *)
(* last is full.  On an empty store compact() returns Ok and leaves one    *)
(* empty segment 0 and num_keys = 0.                                       *)
(***************************************************************************)
C32_CompactedLayout ==
    [][(running /\ res'.op = "compact" /\ res'.out.tag = "ok")
       => /\ DOMAIN disk' = 0..active_id'
          /\ DOMAIN segments' = 0..active_id'
          /\ ~tmp'.exists
          /\ \A id \in DOMAIN disk' :
                /\ segments'[id].linked
                /\ segments'[id].len = Len(disk'[id])
                /\ id < active_id' => IsFull(Len(disk'[id]))
                /\ \A p \in RecordStarts(disk'[id], 0) :
                      /\ ReadRecordAt(disk'[id], p).tag = "some"
                      /\ index'[ReadRecordAt(disk'[id], p).key][1] = id
                      /\ index'[ReadRecordAt(disk'[id], p).key][2] = p
          /\ ListKeys = {}
                => /\ disk' = (0 :> << >>)
                   /\ StatsIn(segments', index', active_id').num_keys = 0]_vars

C32_Witness ==
    /\ running /\ res.op = "compact" /\ res.out.tag = "ok"
    /\ active_id = 1
    /\ IsFull(Len(disk[0]))
    /\ Len(disk[1]) > 0

\* compact() on an empty store.
C32_WitnessEmpty ==
    /\ running /\ res.op = "compact" /\ res.out.tag = "ok"
    /\ nwrites > 0
    /\ disk = (0 :> << >>)

\* The records the segment files d hold, as (key, tombstone, value).
RecordSet(d) == {ReadRecordAt(d[p[1]], p[2]) : p \in RecordsOf(d)}

(***************************************************************************)
(* C33  The result of compaction does not depend on the order in which     *)
(* index.keys() enumerates the keys: whatever order a compact() took, any  *)
(* other order on the same state gives the same index key set, the same    *)
(* value of get for every key and the same set of records on disk.         *)
(***************************************************************************)
C33_OrderIrrelevant ==
    [][(running /\ res'.op = "compact" /\ res'.out.tag = "ok")
       => \A o \in KeyOrders :
             /\ DOMAIN CompactNew(o, Len(o)).index = DOMAIN index'
             /\ CompactedObserved(o) = [k \in Keys |->
                                           GetIn(disk', segments', index', k)]
             /\ RecordSet(CompactedFiles(o)) = RecordSet(disk')]_vars

\* A compaction of two keys whose other order would have left one segment.
C33_Witness ==
    /\ running /\ res.op = "compact" /\ res.out.tag = "ok"
    /\ Cardinality(DOMAIN index) = 2
    /\ active_id = 1
    /\ Len(disk[0]) + Len(disk[1]) = 2 * HEADER_LEN + 3

\* The cached length of the segment a write appends to, before the append:
\* that of the active segment, or 0 for the segment a rotation has created.
CachedLenBefore ==
    IF active_id' \in DOMAIN segments THEN segments[active_id'].len ELSE 0

(***************************************************************************)
(* C34  Segment::append and append_tombstone return the segment length as  *)
(* it was before the call; afterwards the cached length equals the file    *)
(* length and has grown by exactly 20 + |key| + |value| (20 + |key| for a  *)
(* Tombstone).  The first record of a fresh segment is at offset 0 and     *)
(* consecutive records are contiguous.                                     *)
(***************************************************************************)
C34_AppendOffsets ==
    [][(/\ running /\ res'.op \in {"set", "delete"} /\ res'.out = Ok
        /\ (res'.op = "delete" => res'.key \in DOMAIN index))
       => /\ segments'[active_id'].len = Len(disk'[active_id'])
          /\ segments'[active_id'].len
                = CachedLenBefore + 20 + Len(res'.key) + Len(res'.value)
          /\ res'.op = "set" => index'[res'.key][2] = CachedLenBefore
          /\ CachedLenBefore \in RecordStarts(disk'[active_id'], 0)
          /\ EndOfRecords(disk'[active_id'], 0) = Len(disk'[active_id'])
          /\ active_id' # active_id => CachedLenBefore = 0
          /\ ReadRecordAt(disk'[active_id'], CachedLenBefore)
                = [tag |-> "some", key |-> res'.key,
                   tomb |-> res'.op = "delete", value |-> res'.value]]_vars

\* A Tombstone appended right behind a Put in the same segment.
C34_Witness ==
    /\ running /\ res.op = "delete" /\ res.out = Ok
    /\ active_id = 0
    /\ Cardinality(RecordStarts(disk[0], 0)) = 2
    /\ ReadRecordAt(disk[0], 21).tag = "some"
    /\ ReadRecordAt(disk[0], 21).tomb
    /\ segments[0].len = 42

(***************************************************************************)
(* C35  Segment round trip: for every key and value, read_record_at(o)     *)
(* with o the offset that append(key, value) returned yields               *)
(* (key, Some(value)), and with o from append_tombstone(key) yields        *)
(* (key, None), whatever was appended before or after it in the segment.   *)
(***************************************************************************)
C35_SegmentRoundTrip ==
    \A i \in DOMAIN appended :
        ReadRecordAt(disk[0], appended[i].offset)
            = [tag |-> "some", key |-> appended[i].key,
               tomb |-> appended[i].tomb, value |-> appended[i].value]

\* The same for the keys that are UTF-8.
C35_Utf8Keys ==
    \A i \in DOMAIN appended :
        appended[i].key = FromUtf8Lossy(appended[i].key)
        => ReadRecordAt(disk[0], appended[i].offset)
              = [tag |-> "some", key |-> appended[i].key,
                 tomb |-> appended[i].tomb, value |-> appended[i].value]

\* The fields of the running store, as open returns them.
Store ==
    [disk |-> disk, segments |-> segments, index |-> index,
     active_id |-> active_id]

(***************************************************************************)
(* C36  Opening is idempotent and non-destructive: open on an existing     *)
(* non-empty store changes no byte of any segment file, and open; close;   *)
(* open yields the same segment set, active id, index and observable state *)
(* as a single open; directory entries not named segment-<id>.dat (the     *)
(* .compacting directory) are ignored.                                     *)
(***************************************************************************)
C36_OpenIdempotent ==
    [][(res'.op \in {"open", "reopen"} /\ res'.out = Ok)
       => /\ \A id \in DOMAIN disk : id \in DOMAIN disk' /\ disk'[id] = disk[id]
          /\ DOMAIN disk # {} => disk' = disk
          /\ tmp' = tmp
          /\ OpenStore(disk', tmp') = Store'
          /\ OpenedObserved(disk', tmp')
                = [k \in Keys |-> GetIn(disk', segments', index', k)]
          /\ OpenStore(disk, NoTmp) = Store'
          /\ OpenStore(disk, [exists |-> TRUE, files |-> NoFiles]) = Store']_vars

\* An open on a directory that holds records, the torn bytes of a killed
\* write and nothing else, and an open that finds a .compacting directory.
C36_Witness ==
    /\ running /\ res.op = "open" /\ nopens = 1
    /\ DOMAIN index # {}
    /\ TornTail(disk[active_id])

C36_WitnessTmp ==
    /\ running /\ res.op = "open" /\ nopens = 1
    /\ DOMAIN index # {}
    /\ tmp.exists

(***************************************************************************)
(* C37  A get(k) that returns an error (ChecksumMismatch on a corrupted    *)
(* record) changes nothing in the store, and afterwards get, set and       *)
(* delete on every other key whose record is intact succeed with the       *)
(* correct results.                                                        *)
(***************************************************************************)
C37_FailedGetIsHarmless ==
    [][/\ (running /\ res'.op = "get" /\ res'.out.tag = "err")
          => /\ UNCHANGED <<disk, tmp, segments, index, active_id>>
             /\ \A k \in Keys \ {res'.key} :
                   /\ GetIn(disk', segments', index', k) = Get(k)
                   /\ Get(k).tag # "err"
                   /\ nopens = 0 => Get(k) = LastWritten(k)
       /\ (/\ running /\ res.op = "get" /\ res.out.tag = "err"
           /\ res'.op \in {"get", "set", "delete"} /\ res'.key # res.key)
          => /\ res'.out.tag # "err"
             /\ res'.op = "get" => res'.out = Get(res'.key)
             /\ res'.op = "set"
                   => /\ res'.out = Ok
                      /\ GetIn(disk', segments', index', res'.key)
                            = Some(res'.value)
             /\ res'.op = "delete"
                   => /\ res'.out = Ok
                      /\ GetIn(disk', segments', index', res'.key) = None
             /\ GetIn(disk', segments', index', res.key) = res.out]_vars

\* A get has failed on a corrupted record while another key is live.
C37_Witness ==
    /\ running /\ res.op = "get" /\ res.out = ChecksumMismatch
    /\ \E k \in Keys \ {res.key} : Get(k).tag = "value"

(***************************************************************************)
(* C38  In every state reached from an empty directory by set, delete,     *)
(* compact and reopen without I/O errors, every segment other than the     *)
(* active one has a length of at least the size limit.                     *)
(***************************************************************************)
C38_OnlyActiveBelowLimit ==
    running
    => \A id \in DOMAIN segments \ {active_id} :
          /\ id \in DOMAIN disk
          /\ segments[id].len >= SEGMENT_SIZE_LIMIT
          /\ Len(disk[id]) >= SEGMENT_SIZE_LIMIT

\* Two segments were left behind, one by a rotation of set or delete.
C38_Witness ==
    /\ running
    /\ active_id = 2
    /\ DOMAIN segments = {0, 1, 2}
    /\ res.op \in {"set", "delete"}
    /\ Len(disk[0]) >= SEGMENT_SIZE_LIMIT
    /\ Len(disk[2]) < SEGMENT_SIZE_LIMIT

(***************************************************************************)
(* C39  Index rebuild terminates for every segment content, including      *)
(* arbitrary garbage: each turn of the scan loop either stops the scan of  *)
(* the segment or strictly increases the scan position, which is bounded   *)
(* by the segment length, so open always returns.                          *)
(***************************************************************************)
C39_OpenAlwaysReturns == <>(scan.pc = "done" /\ res.out = Ok)

\* The part of C39 about the turns of the loop.
C39_TurnsMakeProgress ==
    [][scan.pc = "loop"
       => /\ scan'.pc # "loop" \/ scan'.pos > scan.pos
          /\ scan'.pc = "loop" => scan.pos < segments[0].len]_vars

\* The loop is left: by the end of the scan, or by the abort of the process.
C39_LoopIsLeft == <>(scan.pc \in {"done", "abort"})

\* The turns of the loop compute what RebuildSegment computes.
C39_TurnsAreRebuildSegment ==
    scan.pc = "done"
    => index = RebuildSegment(disk[0], Len(disk[0]), 0, 0, IndexNew)

(***************************************************************************)
(* C40  Index is a plain map from key to (segment_id, offset,              *)
(* value_length): insert on an existing key replaces its entry and leaves  *)
(* len unchanged, remove returns the removed entry and a second remove of  *)
(* the same key returns None, contains(k) holds exactly when get(k) is     *)
(* Some, and clear leaves the index empty.                                 *)
(***************************************************************************)
C40_IndexIsPlainMap ==
    [][/\ res'.op = "index_insert"
          => /\ IndexGet(index', res'.key)
                   = [tag |-> "some", entry |-> res'.out.entry]
             /\ IndexLen(index')
                   = IndexLen(index)
                       + (IF IndexContains(index, res'.key) THEN 0 ELSE 1)
             /\ \A k \in Keys \ {res'.key} :
                   IndexGet(index', k) = IndexGet(index, k)
       /\ res'.op = "index_remove"
          => /\ res'.out = IndexGet(index, res'.key)
             /\ IndexGet(index', res'.key) = [tag |-> "none"]
             /\ IndexLen(index')
                   = IndexLen(index)
                       - (IF IndexContains(index, res'.key) THEN 1 ELSE 0)
             /\ \A k \in Keys \ {res'.key} :
                   IndexGet(index', k) = IndexGet(index, k)
       /\ (/\ res.op = "index_remove" /\ res'.op = "index_remove"
           /\ res'.key = res.key)
          => res'.out = [tag |-> "none"]
       /\ res'.op = "index_clear"
          => /\ IndexLen(index') = 0
             /\ \A k \in Keys : ~IndexContains(index', k)
       /\ \A k \in Keys :
             /\ IndexContains(index', k) <=> IndexGet(index', k).tag = "some"
             /\ IndexContains(index', k) <=> k \in DOMAIN index'
             /\ IndexContains(index', k)
                   => IndexGet(index', k).entry = index'[k]]_vars

\* An insert has replaced the entry of a key while the other key has one.
C40_Witness ==
    /\ res.op = "index_insert"
    /\ IndexLen(index) = 2
    /\ index[res.key] = <<1, 21, 1>>
    /\ \E k \in Keys \ {res.key} : index[k] = <<0, 0, 0>>

============================================================================
